---- MODULE Spec2Model ----
(***************************************************************************)
(* Checkout flow of the health/wellness onboarding app: the payment form   *)
(* of the Paywall component, the simulated 3-D Secure component            *)
(* (SecureCheckout), the useAppState hook with the browser's localStorage, *)
(* and the pages the checkout outcome is routed to.                        *)
(*                                                                         *)
(* Strings the code inspects character by character (emails, card numbers, *)
(* expiration input, passwords) are sequences of one-character strings.    *)
(***************************************************************************)
EXTENDS Integers, Sequences, FiniteSets, TLC

(***************************************************************************)
(* Bounds and environment parameters                                       *)
(***************************************************************************)
\* two-digit year and month reported by `new Date()` (validation.ts:77-79)
CurrentYear == 26
CurrentMonth == 11

\* initial value of the SecureCheckout countdown, in seconds
AuthSeconds == 300

(***************************************************************************)
(* String helpers                                                          *)
(***************************************************************************)
Undefined == <<"undefined">>

Digits == {"0", "1", "2", "3", "4", "5", "6", "7", "8", "9"}

DigitVal(c) ==
    CASE c = "0" -> 0 [] c = "1" -> 1 [] c = "2" -> 2 [] c = "3" -> 3
      [] c = "4" -> 4 [] c = "5" -> 5 [] c = "6" -> 6 [] c = "7" -> 7
      [] c = "8" -> 8 [] c = "9" -> 9

DigitChar(n) ==
    CASE n = 0 -> "0" [] n = 1 -> "1" [] n = 2 -> "2" [] n = 3 -> "3"
      [] n = 4 -> "4" [] n = 5 -> "5" [] n = 6 -> "6" [] n = 7 -> "7"
      [] n = 8 -> "8" [] n = 9 -> "9"

\* value.replace(/\D/g, "")
RECURSIVE StripNonDigits(_)
StripNonDigits(s) ==
    IF s = <<>> THEN <<>>
    ELSE IF Head(s) \in Digits THEN <<Head(s)>> \o StripNonDigits(Tail(s))
         ELSE StripNonDigits(Tail(s))

\* value.replace(/\s/g, "")
RECURSIVE StripSpaces(_)
StripSpaces(s) ==
    IF s = <<>> THEN <<>>
    ELSE IF Head(s) = " " THEN StripSpaces(Tail(s))
         ELSE <<Head(s)>> \o StripSpaces(Tail(s))

RECURSIVE TrimLeft(_)
TrimLeft(s) ==
    IF s = <<>> THEN <<>>
    ELSE IF Head(s) = " " THEN TrimLeft(Tail(s)) ELSE s

RECURSIVE TrimRight(_)
TrimRight(s) ==
    IF s = <<>> THEN <<>>
    ELSE IF s[Len(s)] = " " THEN TrimRight(SubSeq(s, 1, Len(s) - 1)) ELSE s

\* String.prototype.trim
Trim(s) == TrimRight(TrimLeft(s))

\* parseInt of a non-empty digit string
RECURSIVE ParseInt(_)
ParseInt(s) ==
    IF s = <<>> THEN 0
    ELSE 10 * ParseInt(SubSeq(s, 1, Len(s) - 1)) + DigitVal(s[Len(s)])

\* JavaScript falsiness of an optional string: undefined or ""
Falsy(v) == v = Undefined \/ v = <<>>

(***************************************************************************)
(* utils/validation.ts                                                     *)
(***************************************************************************)
\* /^[^\s@]+@[^\s@]+\.[^\s@]+$/ tested on email.trim()
validateEmail(email) ==
    LET t == Trim(email) IN
    \E i \in 1..Len(t) :
        /\ t[i] = "@"
        /\ i > 1
        /\ \A k \in 1..Len(t) : t[k] # " " /\ (k # i => t[k] # "@")
        /\ \E j \in (i + 2)..(Len(t) - 1) : t[j] = "."

\* an expiration test that looks at the year only
validateExpirationDate_YearOnly(month, year) ==
    LET monthNum == ParseInt(month)
        yearNum == ParseInt(year)
    IN  IF monthNum < 1 \/ monthNum > 12 THEN FALSE
        ELSE IF yearNum < CurrentYear THEN FALSE
        ELSE TRUE

validateExpirationDate(month, year) ==
    LET monthNum == ParseInt(month)
        yearNum == ParseInt(year)
    IN  IF monthNum < 1 \/ monthNum > 12 THEN FALSE
        ELSE IF yearNum < CurrentYear THEN FALSE
        ELSE IF yearNum = CurrentYear /\ monthNum < CurrentMonth THEN FALSE
        ELSE TRUE

\* luhnCheck: the digits summed from the right, every second one doubled
\* (and reduced by 9 when the double exceeds 9)
RECURSIVE LuhnSum(_, _)
LuhnSum(digits, isEven) ==
    IF digits = <<>> THEN 0
    ELSE LET digit == DigitVal(digits[Len(digits)])
             doubled == IF 2 * digit > 9 THEN 2 * digit - 9 ELSE 2 * digit
         IN  (IF isEven THEN doubled ELSE digit)
                + LuhnSum(SubSeq(digits, 1, Len(digits) - 1), ~isEven)

\* a checksum that starts doubling at the last digit
luhnCheck_DoublesFromLast(cardNumber) == LuhnSum(cardNumber, TRUE) % 10 = 0

luhnCheck(cardNumber) == LuhnSum(cardNumber, FALSE) % 10 = 0

TestCardNumber == [i \in 1..16 |-> IF i % 2 = 1 THEN "4" ELSE "2"]

validateCardNumber(cardNumber) ==
    LET cleanNumber == StripNonDigits(cardNumber) IN
    IF Len(cleanNumber) < 13 \/ Len(cleanNumber) > 19 THEN FALSE
    ELSE IF cleanNumber = TestCardNumber THEN TRUE
    ELSE luhnCheck(cleanNumber)

\* groups of four digits joined by single spaces, cut to 19 characters
RECURSIVE JoinGroups(_)
JoinGroups(d) ==
    IF Len(d) <= 4 THEN d
    ELSE SubSeq(d, 1, 4) \o <<" ">> \o JoinGroups(SubSeq(d, 5, Len(d)))

formatCardNumber(cardNumber) ==
    LET joined == JoinGroups(StripNonDigits(cardNumber))
    IN  SubSeq(joined, 1, IF Len(joined) < 19 THEN Len(joined) ELSE 19)

\* formatExpirationDate with the slash appended whether or not digits were
\* removed
formatExpirationDate_AlwaysAppendsSlash(value, previousValue) ==
    LET cleanValue == StripNonDigits(value)
        isDeleting == FALSE
    IN  IF Len(cleanValue) = 0 THEN <<>>
        ELSE IF Len(cleanValue) = 1 THEN
            IF DigitVal(cleanValue[1]) > 1 /\ ~isDeleting
            THEN <<"0", cleanValue[1], "/">>
            ELSE cleanValue
        ELSE IF Len(cleanValue) = 2 THEN
            LET monthNum == ParseInt(cleanValue) IN
            IF monthNum > 12 THEN <<"0", cleanValue[1], "/", cleanValue[2]>>
            ELSE LET month == IF monthNum = 0 THEN <<"0", "1">> ELSE cleanValue
                 IN  IF ~isDeleting THEN month \o <<"/">> ELSE month
        ELSE
            LET monthNum == ParseInt(SubSeq(cleanValue, 1, 2))
                month == IF monthNum = 0 THEN <<"0", "1">>
                         ELSE IF monthNum > 12 THEN <<"1", "2">>
                         ELSE SubSeq(cleanValue, 1, 2)
                year == SubSeq(cleanValue, 3,
                               IF Len(cleanValue) < 4 THEN Len(cleanValue) ELSE 4)
            IN  month \o <<"/">> \o year

formatExpirationDate(value, previousValue) ==
    LET cleanValue == StripNonDigits(value)
        previousCleanValue == StripNonDigits(previousValue)
        isDeleting == Len(cleanValue) < Len(previousCleanValue)
    IN  IF Len(cleanValue) = 0 THEN <<>>
        ELSE IF Len(cleanValue) = 1 THEN
            IF DigitVal(cleanValue[1]) > 1 /\ ~isDeleting
            THEN <<"0", cleanValue[1], "/">>
            ELSE cleanValue
        ELSE IF Len(cleanValue) = 2 THEN
            LET monthNum == ParseInt(cleanValue) IN
            IF monthNum > 12 THEN <<"0", cleanValue[1], "/", cleanValue[2]>>
            ELSE LET month == IF monthNum = 0 THEN <<"0", "1">> ELSE cleanValue
                 IN  IF ~isDeleting THEN month \o <<"/">> ELSE month
        ELSE
            LET monthNum == ParseInt(SubSeq(cleanValue, 1, 2))
                month == IF monthNum = 0 THEN <<"0", "1">>
                         ELSE IF monthNum > 12 THEN <<"1", "2">>
                         ELSE SubSeq(cleanValue, 1, 2)
                year == SubSeq(cleanValue, 3,
                               IF Len(cleanValue) < 4 THEN Len(cleanValue) ELSE 4)
            IN  month \o <<"/">> \o year

\* formatted.split("/"): the parts before and after the first slash
SplitMonth(formatted) ==
    IF \E i \in 1..Len(formatted) : formatted[i] = "/"
    THEN LET i == CHOOSE k \in 1..Len(formatted) :
                     formatted[k] = "/" /\ \A m \in 1..(k - 1) : formatted[m] # "/"
         IN  SubSeq(formatted, 1, i - 1)
    ELSE formatted

SplitYear(formatted) ==
    IF \E i \in 1..Len(formatted) : formatted[i] = "/"
    THEN LET i == CHOOSE k \in 1..Len(formatted) :
                     formatted[k] = "/" /\ \A m \in 1..(k - 1) : formatted[m] # "/"
         IN  SubSeq(formatted, i + 1, Len(formatted))
    ELSE <<>>

(***************************************************************************)
(* Inputs the user can produce                                             *)
(***************************************************************************)
EmailA == <<"a", "@", "b", ".", "c">>
EmailInputs == {<<>>, <<"a", "@", "b">>, EmailA}

SuccessCardDigits == [i \in 1..16 |-> IF i % 2 = 1 THEN "4" ELSE "2"]
DeclineCardDigits == [i \in 1..16 |-> IF i = 1 THEN "4" ELSE IF i = 16 THEN "2" ELSE "0"]
CardInputs == {SuccessCardDigits, DeclineCardDigits}

ExpirationInputs == {<<"1", "2", "/", "2", "8">>, <<"0", "1", "/", "2", "0">>}

CvcInputs == {<<"1", "2", "3">>}
CountryInputs == {"usa"}
PaymentMethods == {"card", "apple-pay", "paypal"}
Plans == {"free-trial", "1-month"}
NoPlan == "undefined"
FreePlan == "free-trial"

SuccessPassword == <<"1", "2", "3", "4", "5", "6">>
PasswordInputs == {<<>>, <<" ">>, SuccessPassword, <<"0", "0", "0", "0", "0", "0">>}

Languages == {"en", "ar"}
Pages == {"onboarding1", "onboarding2", "paywall", "success",
          "paymentSuccess", "paymentCancel", "paymentError"}

(***************************************************************************)
(* Records                                                                 *)
(***************************************************************************)
\* Partial<PaymentInfo> with no field set
EmptyPaymentInfo ==
    [email |-> Undefined, cardNumber |-> Undefined,
     expirationMonth |-> Undefined, expirationYear |-> Undefined,
     cvc |-> Undefined, cardholderName |-> Undefined,
     country |-> "undefined", paymentMethod |-> "undefined"]

\* onboardingData: {} of INITIAL_STATE
EmptyOnboardingData == [k \in {} |-> 0]

\* OnboardingStep1's selectedLunchType and the weight field of WeightInput,
\* both started from the hook's onboarding answers
InitialOnboardingForm(onboardingData) ==
    [selectedLunchType |-> IF "lunchType" \in DOMAIN onboardingData
                           THEN onboardingData.lunchType ELSE "",
     weight |-> IF "weight" \in DOMAIN onboardingData
                THEN onboardingData.weight ELSE 0]

\* useAppState.ts INITIAL_STATE (selectedPlan is absent from it)
INITIAL_STATE ==
    [currentStep |-> 1, onboardingData |-> EmptyOnboardingData,
     paymentInfo |-> EmptyPaymentInfo, selectedPlan |-> NoPlan,
     language |-> "en", direction |-> "ltr"]

\* onboarding answers with no field set: {} (what getStoredOnboardingData
\* returns when the key is absent)
NoAnswers == [k \in {} |-> 0]

\* ApiService: no call is in progress
NoResult == [success |-> FALSE, dataSet |-> "none", answers |-> NoAnswers,
             error |-> "none"]
NoCall == [name |-> "none", phase |-> "idle", step |-> 0, data |-> NoAnswers,
           result |-> NoResult]

\* localStorage with none of the application's keys
NoSnapshot == [present |-> FALSE]
EmptyStore ==
    [user_email |-> Undefined, app_state |-> NoSnapshot,
     onboarding_data |-> NoAnswers, payment_data |-> FALSE]

ErrorKeys == {"email", "cardNumber", "expiration", "cvc", "country", "general"}
NoErrors == [k \in ErrorKeys |-> ""]

\* the Paywall form reducer's initial state, given the hook's payment info
InitialFormState(info) ==
    [paymentInfo |->
        [info EXCEPT
            !.paymentMethod = IF info.paymentMethod = "undefined" THEN "card" ELSE @,
            !.country = IF info.country = "undefined" THEN "turkey" ELSE @],
     expirationInput |-> <<>>,
     errors |-> NoErrors]

\* SecureCheckout's useState values on mount, and the value standing for
\* "not mounted"
MountedCheckout ==
    [step |-> "loading", password |-> <<>>, error |-> "",
     timeLeft |-> AuthSeconds, isInitialized |-> TRUE]
NoCheckout ==
    [step |-> "unmounted", password |-> <<>>, error |-> "",
     timeLeft |-> AuthSeconds, isInitialized |-> FALSE]

VARIABLES
    strictMode,         \* the build double-invokes render bodies and updaters
    route,              \* the current URL's route (without its language prefix)
    urlLanguage,        \* the language prefix of the current URL
    page,               \* the page component mounted for the last committed route
    store,              \* localStorage
    appState,           \* reducer state of the shown page's useAppState
    plansLoaded,        \* Paywall: the plans were fetched
    formState,          \* Paywall: form reducer state
    showSecureCheckout, \* Paywall: uiState.showSecureCheckout
    sc,                 \* SecureCheckout: its useState values
    loadTimerRef,       \* SecureCheckout: loadTimerRef.current
    authTimerRef,       \* SecureCheckout: authTimerRef.current
    activeTimers,       \* timers created by SecureCheckout and not yet over
    delivered,          \* outcome callbacks the current session has invoked
    routedMessage,      \* message handed to the outcome handler
    outcome,            \* history: terminal state the checkout attempt ended in
    userEmail,          \* SuccessPage: the email it shows
    tracked,            \* payment and conversion events the latest step
                        \* handed to trackEvent, in order
    conversions,        \* history: conversion events tracked since the last
                        \* page load or mount of the paywall
    headerState,        \* language and direction in the reducer state of the
                        \* useAppState of the Header the shown page renders
    apiCall,            \* ApiService: the call in progress or just completed
    onboardingForm      \* the lunch type selected on step 1, the weight field of step 2

vars == <<strictMode, route, urlLanguage, page, store, appState, plansLoaded,
          formState, showSecureCheckout, sc, loadTimerRef, authTimerRef,
          activeTimers, delivered, routedMessage, outcome, userEmail,
          tracked, conversions, headerState, apiCall,
          onboardingForm>>

(***************************************************************************)
(* hooks/useAppState.ts                                                    *)
(***************************************************************************)
\* a direction that ignores the language
DirectionOf_AlwaysLtr(language) == "ltr"

\* language === "ar" ? "rtl" : "ltr", as getInitialState and switchLanguage
\* compute it
DirectionOf(language) == IF language = "ar" THEN "rtl" ELSE "ltr"

\* an initial state that takes no language from the URL
getInitialState_IgnoresUrl(st, lang) ==
    LET base == IF st.app_state.present THEN st.app_state.state ELSE INITIAL_STATE
    IN  [base EXCEPT !.onboardingData = IF DOMAIN st.onboarding_data # {}
                                        THEN st.onboarding_data ELSE @]

\* getInitialState merged over INITIAL_STATE: what a freshly mounted
\* useAppState holds, given localStorage and the URL
getInitialState(st, lang) ==
    LET base == IF st.app_state.present THEN st.app_state.state ELSE INITIAL_STATE
    IN  [base EXCEPT !.language = lang, !.direction = DirectionOf(lang),
                     !.onboardingData = IF DOMAIN st.onboarding_data # {}
                                        THEN st.onboarding_data ELSE @]

\* the language and direction of a reducer state
HeaderStateOf(state) == [language |-> state.language, direction |-> state.direction]

\* appReducer, SWITCH_LANGUAGE with the payload switchLanguage builds
SwitchLanguageReducer(state, language) ==
    [state EXCEPT !.language = language, !.direction = DirectionOf(language)]

\* appReducer, UPDATE_PAYMENT_INFO with a payload of the given fields
UpdatePaymentInfoReducer(state, payload) ==
    [state EXCEPT !.paymentInfo =
        [f \in DOMAIN @ |-> IF f \in DOMAIN payload THEN payload[f] ELSE @[f]]]

\* updatePaymentInfo's write to localStorage
UpdatePaymentInfoStore(st, payload) ==
    IF "email" \in DOMAIN payload /\ ~Falsy(payload.email)
    THEN [st EXCEPT !.user_email = payload.email]
    ELSE st

\* appReducer, RESET_STATE
ResetStateReducer == INITIAL_STATE

\* a reset that leaves the separately stored email behind
ClearedStore_KeepsEmail(st) ==
    [st EXCEPT !.onboarding_data = NoAnswers, !.payment_data = FALSE,
               !.app_state = NoSnapshot]

\* ApiService.clearStoredData followed by resetState's removeItem
ClearedStore(st) ==
    [st EXCEPT !.onboarding_data = NoAnswers, !.payment_data = FALSE,
               !.app_state = NoSnapshot, !.user_email = Undefined]

(***************************************************************************)
(* pages/SuccessPage.tsx: the email shown                                  *)
(***************************************************************************)
\* a recovery that prefers the separately stored key to the in-memory email
RecoverEmail_KeyFirst(memEmail, st) ==
    LET afterKey == IF Falsy(st.user_email)
                    THEN (IF Falsy(memEmail) THEN Undefined ELSE memEmail)
                    ELSE st.user_email
    IN  IF Falsy(afterKey)
        THEN (IF st.app_state.present
              THEN st.app_state.state.paymentInfo.email
              ELSE afterKey)
        ELSE afterKey

RecoverEmail(memEmail, st) ==
    LET afterKey == IF Falsy(memEmail)
                    THEN (IF Falsy(st.user_email) THEN Undefined ELSE st.user_email)
                    ELSE memEmail
    IN  IF Falsy(afterKey)
        THEN (IF st.app_state.present
              THEN st.app_state.state.paymentInfo.email
              ELSE afterKey)
        ELSE afterKey

(***************************************************************************)
(* Initial state: the application is opened at its root URL                *)
(***************************************************************************)
Init ==
    /\ strictMode \in BOOLEAN
    /\ route = "onboarding1"
    /\ urlLanguage \in Languages
    /\ page = "onboarding1"
    /\ store = EmptyStore
    /\ appState = getInitialState(store, urlLanguage)
    /\ plansLoaded = FALSE
    /\ formState = InitialFormState(EmptyPaymentInfo)
    /\ showSecureCheckout = FALSE
    /\ sc = NoCheckout
    /\ loadTimerRef = "null"
    /\ authTimerRef = "null"
    /\ activeTimers = {}
    /\ delivered = <<>>
    /\ routedMessage = "none"
    /\ outcome = "none"
    /\ userEmail = Undefined
    /\ tracked = <<>>
    /\ conversions = 0
    /\ headerState = HeaderStateOf(appState)
    /\ apiCall = NoCall
    /\ onboardingForm = InitialOnboardingForm(appState.onboardingData)

(***************************************************************************)
(* services/analytics.ts and components/common/EventTracker.tsx: the       *)
(* actions of the events of category "payment" and "conversion"            *)
(***************************************************************************)
ConversionEvents == {"onboarding_complete"}

\* how often a mount runs an effect: a StrictMode development build runs
\* every effect of a newly mounted component twice
EffectRuns(strict) == IF strict THEN 2 ELSE 1

\* the events the mount effects of page p track
MountEvents(p, strict) ==
    LET event == CASE p = "success" -> <<"onboarding_complete">>
                   [] p = "paymentSuccess" -> <<"payment_completed">>
                   [] p = "paymentCancel" -> <<"payment_cancelled">>
                   [] p = "paymentError" -> <<"payment_failed">>
                   [] OTHER -> <<>>
    IN  IF event = <<>> THEN <<>>
        ELSE [i \in 1..EffectRuns(strict) |-> event[1]]

CountConversions(events) ==
    Cardinality({i \in DOMAIN events : events[i] \in ConversionEvents})

(***************************************************************************)
(* Routing (App.tsx LanguageRouter).  navigate() changes the URL at once;  *)
(* the commit that follows unmounts the shown page and mounts the page of  *)
(* the new route with a fresh useAppState (and, for the paywall, a fresh   *)
(* form; for the success page, its email computed on render).              *)
(***************************************************************************)
ShowPage(p, lang, st, earlier) ==
    LET fresh == getInitialState(st, lang) IN
    /\ page' = p
    /\ tracked' = MountEvents(p, strictMode)
    /\ conversions' = (IF p = "paywall" THEN 0 ELSE earlier)
                        + CountConversions(MountEvents(p, strictMode))
    /\ appState' = fresh
    /\ headerState' = HeaderStateOf(fresh)
    /\ plansLoaded' = FALSE
    /\ formState' = InitialFormState(fresh.paymentInfo)
    /\ showSecureCheckout' = FALSE
    /\ sc' = NoCheckout
    /\ loadTimerRef' = "null"
    /\ authTimerRef' = "null"
    /\ userEmail' = IF p = "success"
                    THEN RecoverEmail(fresh.paymentInfo.email, st)
                    ELSE Undefined
    /\ onboardingForm' = InitialOnboardingForm(fresh.onboardingData)

\* no navigation is waiting for its commit
Committed == route = page

\* a commit after which the error page sends the user back to the paywall
CommitRoute_AutoRetry ==
    /\ route # page
    /\ ShowPage(route, urlLanguage, store, conversions)
    /\ outcome' = IF route = "paywall" THEN "none" ELSE outcome
    /\ delivered' = IF route = "paywall" THEN <<>> ELSE delivered
    /\ routedMessage' = IF route = "paywall" THEN "none" ELSE routedMessage
    /\ route' = IF route = "paymentError" THEN "paywall" ELSE route
    /\ UNCHANGED <<strictMode, apiCall, urlLanguage, store, activeTimers>>

CommitRoute ==
    /\ route # page
    /\ ShowPage(route, urlLanguage, store, conversions)
    /\ outcome' = IF route = "paywall" THEN "none" ELSE outcome
    /\ delivered' = IF route = "paywall" THEN <<>> ELSE delivered
    /\ routedMessage' = IF route = "paywall" THEN "none" ELSE routedMessage
    /\ UNCHANGED <<strictMode, apiCall, route, urlLanguage, store, activeTimers>>

\* the user loads a URL of the application (reload, deep link): every
\* in-memory value and timer is gone and localStorage stays, except that the
\* browser may have lost the separately stored email key in between (the
\* loss is modelled at the load of the success page, the key's only reader).
\* A load while SecureCheckout is shown is modelled before the countdown's
\* first tick; a later one leads to the same states.
OpenUrl(r, emailKeyLost) ==
    /\ emailKeyLost => (r = "success" /\ store.user_email # Undefined)
    /\ showSecureCheckout => sc.timeLeft = AuthSeconds
    /\ route' = r
    /\ store' = IF emailKeyLost THEN [store EXCEPT !.user_email = Undefined]
                ELSE store
    /\ ShowPage(r, urlLanguage, store', 0)
    /\ activeTimers' = {}
    /\ delivered' = <<>>
    /\ routedMessage' = "none"
    /\ outcome' = "none"
    /\ UNCHANGED <<strictMode, apiCall, urlLanguage>>

(***************************************************************************)
(* components/paywall/Paywall.tsx                                          *)
(***************************************************************************)
OnPaywallForm == Committed /\ page = "paywall" /\ ~showSecureCheckout

SecureCheckoutUnchanged ==
    UNCHANGED <<showSecureCheckout, sc, loadTimerRef, authTimerRef, activeTimers,
                delivered, routedMessage, outcome>>

\* loadData's effect, then the auto-selection of the free plan on the
\* render that follows
LoadData ==
    /\ Committed
    /\ page = "paywall"
    /\ ~plansLoaded
    /\ plansLoaded' = TRUE
    /\ appState' = IF appState.selectedPlan = NoPlan
                   THEN [appState EXCEPT !.selectedPlan = FreePlan]
                   ELSE appState
    /\ tracked' = <<>>
    /\ UNCHANGED <<strictMode, headerState, apiCall, onboardingForm, route, urlLanguage, page, store, formState, userEmail,
                   conversions>>
    /\ SecureCheckoutUnchanged

handlePlanSelect(plan) ==
    /\ OnPaywallForm
    /\ plansLoaded
    /\ appState' = [appState EXCEPT !.selectedPlan = plan]
    /\ tracked' = <<"plan_selected">>
    /\ UNCHANGED <<strictMode, headerState, apiCall, onboardingForm, route, urlLanguage, page, store, plansLoaded, formState,
                   userEmail, conversions>>
    /\ SecureCheckoutUnchanged

\* a change of method that clears every error of the form
ChangePaymentMethod_ClearsAllErrors(method) ==
    LET payload == [cardNumber |-> <<>>, expirationMonth |-> <<>>,
                    expirationYear |-> <<>>, cvc |-> <<>>,
                    paymentMethod |-> method]
    IN
    /\ OnPaywallForm
    /\ formState' =
          [paymentInfo |-> [formState.paymentInfo EXCEPT
                               !.cardNumber = <<>>, !.expirationMonth = <<>>,
                               !.expirationYear = <<>>, !.cvc = <<>>,
                               !.paymentMethod = method],
           expirationInput |-> <<>>,
           errors |-> NoErrors]
    /\ appState' = UpdatePaymentInfoReducer(appState, payload)
    /\ store' = UpdatePaymentInfoStore(store, payload)
    /\ tracked' = <<>>
    /\ UNCHANGED <<strictMode, headerState, apiCall, onboardingForm, route, urlLanguage, page, plansLoaded, userEmail,
                   conversions>>
    /\ SecureCheckoutUnchanged

\* handleInputChange, field = "paymentMethod"
ChangePaymentMethod(method) ==
    LET payload == [cardNumber |-> <<>>, expirationMonth |-> <<>>,
                    expirationYear |-> <<>>, cvc |-> <<>>,
                    paymentMethod |-> method]
    IN
    /\ OnPaywallForm
    /\ formState' =
          [paymentInfo |-> [formState.paymentInfo EXCEPT
                               !.cardNumber = <<>>, !.expirationMonth = <<>>,
                               !.expirationYear = <<>>, !.cvc = <<>>,
                               !.paymentMethod = method],
           expirationInput |-> <<>>,
           errors |-> [formState.errors EXCEPT
                          !.cardNumber = "", !.expiration = "", !.cvc = ""]]
    /\ appState' = UpdatePaymentInfoReducer(appState, payload)
    /\ store' = UpdatePaymentInfoStore(store, payload)
    /\ tracked' = <<>>
    /\ UNCHANGED <<strictMode, headerState, apiCall, onboardingForm, route, urlLanguage, page, plansLoaded, userEmail,
                   conversions>>
    /\ SecureCheckoutUnchanged

\* handleInputChange, field = "expirationMonth"
ChangeExpiration(value) ==
    LET formatted == formatExpirationDate(value, formState.expirationInput)
        month == SplitMonth(formatted)
        year == SplitYear(formatted)
        payload == [expirationMonth |-> month, expirationYear |-> year]
        cleared == IF formState.errors.expiration # ""
                   THEN [formState.errors EXCEPT !.expiration = ""]
                   ELSE formState.errors
        past == /\ Len(month) = 2
                /\ Len(year) = 2
                /\ ~validateExpirationDate(month, year)
    IN
    /\ OnPaywallForm
    /\ formState.paymentInfo.paymentMethod = "card"
    /\ formState' =
          [paymentInfo |-> [formState.paymentInfo EXCEPT
                               !.expirationMonth = month,
                               !.expirationYear = year],
           expirationInput |-> formatted,
           errors |-> IF past
                      THEN [formState.errors EXCEPT !.expiration = "expirationPast"]
                      ELSE cleared]
    /\ appState' = UpdatePaymentInfoReducer(appState, payload)
    /\ store' = UpdatePaymentInfoStore(store, payload)
    /\ tracked' = <<>>
    /\ UNCHANGED <<strictMode, headerState, apiCall, onboardingForm, route, urlLanguage, page, plansLoaded, userEmail,
                   conversions>>
    /\ SecureCheckoutUnchanged

\* handleInputChange for a field stored as typed (after formatting): the
\* form and hook updates and the clearing of the field's error
ChangePlainField(field, formattedValue, errors) ==
    /\ formState' = [formState EXCEPT !.paymentInfo[field] = formattedValue,
                                      !.errors = errors]
    /\ appState' = UpdatePaymentInfoReducer(appState, field :> formattedValue)
    /\ tracked' = <<>>
    /\ UNCHANGED <<strictMode, headerState, apiCall, onboardingForm, route, urlLanguage, page, plansLoaded, userEmail,
                   conversions>>
    /\ SecureCheckoutUnchanged

ClearedError(field) ==
    IF formState.errors[field] # ""
    THEN [formState.errors EXCEPT ![field] = ""]
    ELSE formState.errors

\* an email change that writes the separate key only while it is absent
ChangeEmail_KeepsFirstKey(value) ==
    /\ OnPaywallForm
    /\ ChangePlainField("email", value,
            IF Trim(value) # <<>> /\ ~validateEmail(value)
            THEN [formState.errors EXCEPT !.email = "emailInvalid"]
            ELSE ClearedError("email"))
    /\ store' = IF Falsy(store.user_email)
                THEN [store EXCEPT !.user_email = value]
                ELSE store

\* handleInputChange, field = "email"
ChangeEmail(value) ==
    /\ OnPaywallForm
    /\ ChangePlainField("email", value,
            IF Trim(value) # <<>> /\ ~validateEmail(value)
            THEN [formState.errors EXCEPT !.email = "emailInvalid"]
            ELSE ClearedError("email"))
    /\ store' = [UpdatePaymentInfoStore(store, [email |-> value])
                    EXCEPT !.user_email = value]

\* handleInputChange, field = "cardNumber"
ChangeCardNumber(value) ==
    /\ OnPaywallForm
    /\ formState.paymentInfo.paymentMethod = "card"
    /\ ChangePlainField("cardNumber", formatCardNumber(value),
                        ClearedError("cardNumber"))
    /\ UNCHANGED store

\* handleInputChange, field = "cvc"
ChangeCvc(value) ==
    /\ OnPaywallForm
    /\ formState.paymentInfo.paymentMethod = "card"
    /\ ChangePlainField("cvc", value, ClearedError("cvc"))
    /\ UNCHANGED store

\* handleInputChange, field = "country"
ChangeCountry(value) ==
    /\ OnPaywallForm
    /\ formState.paymentInfo.paymentMethod = "card"
    /\ ChangePlainField("country", value, ClearedError("country"))
    /\ UNCHANGED store

\* a validation that asks for the card fields whatever the method
RequiresCardFields_Always(info) == TRUE

\* validateForm's condition for validating the card fields
RequiresCardFields(info) == info.paymentMethod = "card"

\* a validation that also runs the card number through validateCardNumber
validateForm_ChecksCardNumber(info) ==
    LET emailError ==
            IF Falsy(info.email) \/ Trim(info.email) = <<>> THEN "emailRequired"
            ELSE IF ~validateEmail(info.email) THEN "emailInvalid"
            ELSE ""
        isCard == RequiresCardFields(info)
        cardError ==
            IF isCard /\ (Falsy(info.cardNumber) \/ Trim(info.cardNumber) = <<>>)
            THEN "cardNumberRequired"
            ELSE IF isCard /\ ~validateCardNumber(info.cardNumber)
                 THEN "cardNumberInvalid"
            ELSE ""
        hasExpiration == ~Falsy(info.expirationMonth) /\ ~Falsy(info.expirationYear)
        expirationError ==
            IF ~isCard THEN ""
            ELSE IF ~hasExpiration THEN "expirationRequired"
            ELSE IF ~validateExpirationDate(info.expirationMonth, info.expirationYear)
                 THEN "expirationPast"
            ELSE ""
        cvcError ==
            IF isCard /\ (Falsy(info.cvc) \/ Trim(info.cvc) = <<>>)
            THEN "cvcRequired" ELSE ""
        countryError ==
            IF isCard /\ info.country \in {"undefined", ""}
            THEN "countryRequired" ELSE ""
    IN  [k \in ErrorKeys |->
            CASE k = "email" -> emailError
              [] k = "cardNumber" -> cardError
              [] k = "expiration" -> expirationError
              [] k = "cvc" -> cvcError
              [] k = "country" -> countryError
              [] OTHER -> ""]

\* validateForm: the error map it builds
validateForm(info) ==
    LET emailError ==
            IF Falsy(info.email) \/ Trim(info.email) = <<>> THEN "emailRequired"
            ELSE IF ~validateEmail(info.email) THEN "emailInvalid"
            ELSE ""
        isCard == RequiresCardFields(info)
        cardError ==
            IF isCard /\ (Falsy(info.cardNumber) \/ Trim(info.cardNumber) = <<>>)
            THEN "cardNumberRequired" ELSE ""
        hasExpiration == ~Falsy(info.expirationMonth) /\ ~Falsy(info.expirationYear)
        expirationError ==
            IF ~isCard THEN ""
            ELSE IF ~hasExpiration THEN "expirationRequired"
            ELSE IF ~validateExpirationDate(info.expirationMonth, info.expirationYear)
                 THEN "expirationPast"
            ELSE ""
        cvcError ==
            IF isCard /\ (Falsy(info.cvc) \/ Trim(info.cvc) = <<>>)
            THEN "cvcRequired" ELSE ""
        countryError ==
            IF isCard /\ info.country \in {"undefined", ""}
            THEN "countryRequired" ELSE ""
    IN  [k \in ErrorKeys |->
            CASE k = "email" -> emailError
              [] k = "cardNumber" -> cardError
              [] k = "expiration" -> expirationError
              [] k = "cvc" -> cvcError
              [] k = "country" -> countryError
              [] OTHER -> ""]

\* timers the mount of SecureCheckout leaves running: its body schedules the
\* reveal timer while rendering, so a build that renders the body twice and
\* keeps only the second pass's refs (React.StrictMode in main.tsx, in a
\* development build) has a first timer no ref points to
MountTimers(strict) == IF strict THEN {"orphanLoad", "load"} ELSE {"load"}

\* handlePayment's test for the methods that complete without authentication
BypassesAuthentication(method) == method \in {"paypal", "apple-pay"}

\* a submit that opens the authentication step for a card draft whatever the
\* validation found
handlePayment_IgnoresValidation ==
    LET info == formState.paymentInfo
        newErrors == validateForm(info)
    IN
    /\ OnPaywallForm
    /\ appState.selectedPlan # NoPlan
    /\ formState' = [formState EXCEPT !.errors = newErrors]
    /\ UNCHANGED <<strictMode, headerState, apiCall, onboardingForm, page, store, appState, plansLoaded, userEmail,
                   routedMessage, conversions>>
    /\ IF newErrors # NoErrors /\ info.paymentMethod # "card"
       THEN /\ tracked' = <<"validation_failed">>
            /\ UNCHANGED <<route, urlLanguage, showSecureCheckout, sc, loadTimerRef,
                           authTimerRef, activeTimers, delivered, outcome>>
       ELSE IF BypassesAuthentication(info.paymentMethod)
       THEN /\ tracked' = <<"payment_initiated", "payment_success">>
            /\ route' = "success"
            /\ urlLanguage' = appState.language
            /\ outcome' = "Succeeded"
            /\ UNCHANGED <<showSecureCheckout, sc, loadTimerRef, authTimerRef,
                           activeTimers, delivered>>
       ELSE /\ tracked' = <<"payment_initiated">>
            /\ showSecureCheckout' = TRUE
            /\ sc' = MountedCheckout
            /\ loadTimerRef' = "load"
            /\ authTimerRef' = "null"
            /\ activeTimers' = activeTimers \cup MountTimers(strictMode)
            /\ delivered' = <<>>
            /\ UNCHANGED <<route, urlLanguage, outcome>>

\* handlePayment (the button is disabled while no plan is selected)
handlePayment ==
    LET info == formState.paymentInfo
        newErrors == validateForm(info)
    IN
    /\ OnPaywallForm
    /\ appState.selectedPlan # NoPlan
    /\ formState' = [formState EXCEPT !.errors = newErrors]
    /\ UNCHANGED <<strictMode, headerState, apiCall, onboardingForm, page, store, appState, plansLoaded, userEmail,
                   routedMessage, conversions>>
    /\ IF newErrors # NoErrors
       THEN /\ tracked' = <<"validation_failed">>
            /\ UNCHANGED <<route, urlLanguage, showSecureCheckout, sc, loadTimerRef,
                           authTimerRef, activeTimers, delivered, outcome>>
       ELSE IF BypassesAuthentication(info.paymentMethod)
       THEN /\ tracked' = <<"payment_initiated", "payment_success">>
            /\ route' = "success"
            /\ urlLanguage' = appState.language
            /\ outcome' = "Succeeded"
            /\ UNCHANGED <<showSecureCheckout, sc, loadTimerRef, authTimerRef,
                           activeTimers, delivered>>
       ELSE IF info.paymentMethod = "card"
       THEN /\ tracked' = <<"payment_initiated">>
            /\ showSecureCheckout' = TRUE
            /\ sc' = MountedCheckout
            /\ loadTimerRef' = "load"
            /\ authTimerRef' = "null"
            /\ activeTimers' = activeTimers \cup MountTimers(strictMode)
            /\ delivered' = <<>>
            /\ UNCHANGED <<route, urlLanguage, outcome>>
       ELSE /\ tracked' = <<"payment_initiated">>
            /\ UNCHANGED <<route, urlLanguage, showSecureCheckout, sc, loadTimerRef,
                           authTimerRef, activeTimers, delivered, outcome>>

(***************************************************************************)
(* Outcome router: Paywall's handleSecureCheckoutSuccess / Cancel / Error  *)
(***************************************************************************)
\* a router that sends cancellations to the error page
Destination_CancelAsError(callback) ==
    CASE callback = "success" -> "paymentSuccess"
      [] callback = "cancel" -> "paymentError"
      [] callback = "error" -> "paymentError"

Destination(callback) ==
    CASE callback = "success" -> "paymentSuccess"
      [] callback = "cancel" -> "paymentCancel"
      [] callback = "error" -> "paymentError"

\* a router that sends every outcome to the cancel page
RouteOutcome_AlwaysCancel(callback, message, times) ==
    /\ showSecureCheckout' = FALSE
    /\ sc' = NoCheckout
    /\ loadTimerRef' = "null"
    /\ authTimerRef' = "null"
    /\ route' = "paymentCancel"
    /\ urlLanguage' = appState.language
    /\ routedMessage' = "none"
    /\ delivered' = delivered \o [i \in 1..times |-> callback]

\* the callback is invoked `times` times with the same argument; hiding
\* SecureCheckout unmounts it, which drops its state and refs
RouteOutcome(callback, message, times) ==
    /\ showSecureCheckout' = FALSE
    /\ sc' = NoCheckout
    /\ loadTimerRef' = "null"
    /\ authTimerRef' = "null"
    /\ route' = Destination(callback)
    /\ urlLanguage' = appState.language
    /\ routedMessage' = IF callback = "error" THEN message ELSE "none"
    /\ delivered' = delivered \o [i \in 1..times |-> callback]

(***************************************************************************)
(* components/payment/SecureCheckout.tsx                                   *)
(***************************************************************************)
InSecureCheckout == Committed /\ page = "paywall" /\ showSecureCheckout

PaywallUnchanged ==
    UNCHANGED <<strictMode, headerState, apiCall, onboardingForm, page, store, appState, plansLoaded, formState,
                userEmail, conversions>>

\* cleanupTimers: the timers that are still running after it
cleanupTimers(timers) == timers \ {loadTimerRef, authTimerRef}

\* the reveal timer of the pass whose refs were dropped: its setStep goes to
\* a discarded hook, its interval is stored in the dropped ref
OrphanLoadTimerFires ==
    /\ "orphanLoad" \in activeTimers
    /\ activeTimers' = (activeTimers \ {"orphanLoad"}) \cup {"orphanAuth"}
    /\ tracked' = <<>>
    /\ UNCHANGED <<route, urlLanguage, showSecureCheckout, sc, loadTimerRef,
                   authTimerRef, delivered, routedMessage, outcome>>
    /\ PaywallUnchanged

\* the setTimeout callback of initializeComponent, then startAuthTimer
LoadTimerFires ==
    /\ "load" \in activeTimers
    /\ "orphanLoad" \notin activeTimers
    /\ sc' = [sc EXCEPT !.step = "auth"]
    /\ tracked' = <<>>
    /\ authTimerRef' = "auth"
    /\ activeTimers' = (activeTimers \ {"load"}) \cup {"auth"}
    /\ UNCHANGED <<route, urlLanguage, showSecureCheckout, loadTimerRef,
                   delivered, routedMessage, outcome>>
    /\ PaywallUnchanged

\* a countdown that stops at zero without invoking onCancel
AuthTimerTicks_SilentExpiry ==
    LET newTime == sc.timeLeft - 1 IN
    /\ "auth" \in activeTimers
    /\ PaywallUnchanged
    /\ tracked' = <<>>
    /\ UNCHANGED <<route, urlLanguage, showSecureCheckout, loadTimerRef,
                   authTimerRef, delivered, routedMessage, outcome>>
    /\ IF newTime <= 0
       THEN /\ activeTimers' = activeTimers \ {authTimerRef}
            /\ sc' = [sc EXCEPT !.timeLeft = 0]
       ELSE /\ sc' = [sc EXCEPT !.timeLeft = newTime]
            /\ UNCHANGED activeTimers

\* one tick of the interval of startAuthTimer; a build that double-invokes
\* updater functions may run the expiry branch, with its onCancel, twice
AuthTimerTicks ==
    LET newTime == sc.timeLeft - 1 IN
    /\ "auth" \in activeTimers
    /\ PaywallUnchanged
    /\ tracked' = <<>>
    /\ IF newTime <= 0
       THEN /\ activeTimers' = activeTimers \ {authTimerRef}
            /\ \E times \in (IF strictMode THEN {1, 2} ELSE {1}) :
                    RouteOutcome("cancel", "none", times)
            /\ outcome' = "AuthExpired"
       ELSE /\ sc' = [sc EXCEPT !.timeLeft = newTime]
            /\ UNCHANGED <<route, urlLanguage, showSecureCheckout, loadTimerRef,
                           authTimerRef, activeTimers, delivered, routedMessage,
                           outcome>>

\* onChange of the password input
SetPassword(value) ==
    /\ InSecureCheckout
    /\ sc.step = "auth"
    /\ sc' = [sc EXCEPT !.password = value]
    /\ tracked' = <<>>
    /\ UNCHANGED <<route, urlLanguage, showSecureCheckout, loadTimerRef,
                   authTimerRef, activeTimers, delivered, routedMessage, outcome>>
    /\ PaywallUnchanged

\* a submit that starts processing whatever the password field holds
handleSubmit_NoValidation ==
    /\ InSecureCheckout
    /\ sc.step = "auth"
    /\ PaywallUnchanged
    /\ UNCHANGED <<route, urlLanguage, showSecureCheckout, delivered,
                   routedMessage, outcome>>
    /\ sc' = [sc EXCEPT !.step = "processing", !.error = ""]
    /\ tracked' = <<"processing_started">>
    /\ activeTimers' = cleanupTimers(activeTimers) \cup {"processing"}
    /\ loadTimerRef' = "null"
    /\ authTimerRef' = "null"

\* handleSubmit up to its await
handleSubmit ==
    /\ InSecureCheckout
    /\ sc.step = "auth"
    /\ PaywallUnchanged
    /\ UNCHANGED <<route, urlLanguage, showSecureCheckout, delivered,
                   routedMessage, outcome>>
    /\ IF Trim(sc.password) = <<>>
       THEN /\ sc' = [sc EXCEPT !.error = "passwordRequired"]
            /\ tracked' = <<"validation_failed">>
            /\ UNCHANGED <<loadTimerRef, authTimerRef, activeTimers>>
       ELSE /\ sc' = [sc EXCEPT !.step = "processing", !.error = ""]
            /\ tracked' = <<"processing_started">>
            /\ activeTimers' = cleanupTimers(activeTimers) \cup {"processing"}
            /\ loadTimerRef' = "null"
            /\ authTimerRef' = "null"

\* a decision that accepts when either credential matches
PaymentSucceeds_EitherMatches(cardNumber, password) ==
    LET clean == IF Falsy(cardNumber) THEN <<>> ELSE StripSpaces(cardNumber)
    IN  clean = SuccessCardDigits \/ password = SuccessPassword

\* the decision handleSubmit takes once the processing delay is over
PaymentSucceeds(cardNumber, password) ==
    LET clean == IF Falsy(cardNumber) THEN <<>> ELSE StripSpaces(cardNumber)
    IN  clean = SuccessCardDigits /\ password = SuccessPassword

\* handleSubmit after its await: the three-second timer resolves
ProcessingTimerFires ==
    /\ "processing" \in activeTimers
    /\ activeTimers' = activeTimers \ {"processing"}
    /\ PaywallUnchanged
    /\ IF PaymentSucceeds(formState.paymentInfo.cardNumber, sc.password)
       THEN /\ RouteOutcome("success", "none", 1)
            /\ tracked' = <<"payment_success">>
            /\ outcome' = "Succeeded"
       ELSE /\ RouteOutcome("error", "paymentFailed", 1)
            /\ tracked' = <<"payment_failed">>
            /\ outcome' = "Declined"

\* a cancel that is available in every step of SecureCheckout
handleCancel_AnyStep ==
    /\ InSecureCheckout
    /\ activeTimers' = cleanupTimers(activeTimers) \ {"processing"}
    /\ RouteOutcome("cancel", "none", 1)
    /\ outcome' = "Cancelled"
    /\ tracked' = <<>>
    /\ PaywallUnchanged

\* handleCancel (the button exists on the authentication form only)
handleCancel ==
    /\ InSecureCheckout
    /\ sc.step = "auth"
    /\ activeTimers' = cleanupTimers(activeTimers)
    /\ RouteOutcome("cancel", "none", 1)
    /\ outcome' = "Cancelled"
    /\ tracked' = <<>>
    /\ PaywallUnchanged

(***************************************************************************)
(* services/stripe.ts: handlePaymentCallback on a URL without parameters,  *)
(* and the message the outcome pages take from it                          *)
(***************************************************************************)
handlePaymentCallback(p) ==
    CASE p = "paymentSuccess" ->
            [status |-> "success", message |-> "Payment completed successfully!"]
      [] p = "paymentCancel" ->
            [status |-> "cancel", message |-> "Payment was canceled."]
      [] p = "paymentError" ->
            [status |-> "error", message |-> "Payment failed. Please try again."]
      [] OTHER ->
            [status |-> "error", message |-> "Unknown payment status"]

\* PaymentErrorPage keeps the message of an error result; PaymentCancelPage
\* does not consult the callback
errorInfo(p) ==
    IF p = "paymentError" /\ handlePaymentCallback(p).status = "error"
    THEN handlePaymentCallback(p).message
    ELSE "none"

(***************************************************************************)
(* Outcome pages                                                           *)
(***************************************************************************)
NavigateOnly(r) ==
    /\ Committed
    /\ route' = r
    /\ urlLanguage' = appState.language
    /\ tracked' = <<>>
    /\ UNCHANGED <<strictMode, headerState, apiCall, onboardingForm, page, store, appState, plansLoaded, formState,
                   showSecureCheckout, sc, loadTimerRef, authTimerRef,
                   activeTimers, delivered, routedMessage, outcome, userEmail,
                   conversions>>

\* PaymentSuccessPage: its effect's one-second redirect to the success page
PaymentSuccessRedirect ==
    /\ page = "paymentSuccess"
    /\ NavigateOnly("success")

\* handleRetryPayment of PaymentCancelPage and PaymentErrorPage
handleRetryPayment ==
    /\ page \in {"paymentCancel", "paymentError"}
    /\ NavigateOnly("paywall")

\* handleGoHome of PaymentCancelPage and PaymentErrorPage
handleGoHome ==
    /\ page \in {"paymentCancel", "paymentError"}
    /\ NavigateOnly("onboarding1")

\* SuccessPage's handleGoHome: resetState
resetState ==
    /\ Committed
    /\ page = "success"
    /\ store' = ClearedStore(store)
    /\ appState' = ResetStateReducer
    /\ route' = "onboarding1"
    /\ urlLanguage' = appState.language
    /\ tracked' = <<>>
    /\ UNCHANGED <<strictMode, headerState, apiCall, onboardingForm, page, plansLoaded, formState, showSecureCheckout,
                   sc, loadTimerRef, authTimerRef, activeTimers, delivered,
                   routedMessage, outcome, userEmail, conversions>>

(***************************************************************************)
(* components/header/Header.tsx                                            *)
(***************************************************************************)
\* pages that render a Header (the paywall hides it during SecureCheckout)
HeaderPages == {"onboarding1", "onboarding2", "paywall", "success"}

\* the step useAppState derives from the path when the path changes under a
\* mounted page: 2 for /onboarding-2, 3 for /paywall, 4 for /success, else 1
StepOfPage(p) ==
    CASE p = "onboarding2" -> 2
      [] p = "paywall" -> 3
      [] p = "success" -> 4
      [] OTHER -> 1

\* switchLanguage of the Header's useAppState: SWITCH_LANGUAGE on its own
\* reducer, then a navigation to the shown path under the new prefix, which
\* matches a route with the same element and so mounts nothing; the shown
\* page's useAppState sees the path change and sets its step from the path
switchLanguage(language) ==
    /\ Committed
    /\ page \in HeaderPages
    /\ ~showSecureCheckout
    /\ headerState' = HeaderStateOf(SwitchLanguageReducer(headerState, language))
    /\ urlLanguage' = language
    /\ appState' = IF language # urlLanguage
                   THEN [appState EXCEPT !.currentStep = StepOfPage(page)]
                   ELSE appState
    /\ tracked' = <<>>
    /\ UNCHANGED <<strictMode, apiCall, onboardingForm, route, page, store, plansLoaded,
                   formState, showSecureCheckout, sc, loadTimerRef, authTimerRef,
                   activeTimers, delivered, routedMessage, outcome, userEmail,
                   conversions>>

\* the language button
handleLanguageToggle ==
    switchLanguage(IF headerState.language = "en" THEN "ar" ELSE "en")

(***************************************************************************)
(* Specification                                                           *)
(***************************************************************************)
Next ==
    \/ CommitRoute
    \/ \E r \in Pages, emailKeyLost \in BOOLEAN : OpenUrl(r, emailKeyLost)
    \/ LoadData
    \/ \E plan \in Plans : handlePlanSelect(plan)
    \/ \E method \in PaymentMethods : ChangePaymentMethod(method)
    \/ \E value \in EmailInputs : ChangeEmail(value)
    \/ \E value \in CardInputs : ChangeCardNumber(value)
    \/ \E value \in ExpirationInputs : ChangeExpiration(value)
    \/ \E value \in CvcInputs : ChangeCvc(value)
    \/ \E value \in CountryInputs : ChangeCountry(value)
    \/ handlePayment
    \/ OrphanLoadTimerFires
    \/ LoadTimerFires
    \/ AuthTimerTicks
    \/ \E value \in PasswordInputs : SetPassword(value)
    \/ handleSubmit
    \/ ProcessingTimerFires
    \/ handleCancel
    \/ PaymentSuccessRedirect
    \/ handleRetryPayment
    \/ handleGoHome
    \/ resetState

Spec == Init /\ [][Next]_vars

(***************************************************************************)
(* The states of the checkout machine, read off the components' state      *)
(***************************************************************************)
CheckoutState ==
    IF outcome # "none" THEN outcome
    ELSE IF page # "paywall" THEN "NoSession"
    ELSE IF showSecureCheckout
         THEN (IF sc.step = "processing" THEN "Processing" ELSE "Authenticating")
    ELSE IF appState.selectedPlan = NoPlan THEN "SelectingPlan"
    ELSE "EnteringPayment"

\* timers run by the browser: the two-second reveal timers, the one-second
\* interval and the three-second processing delay
TimerStep ==
    OrphanLoadTimerFires \/ LoadTimerFires \/ AuthTimerTicks \/ ProcessingTimerFires

(***************************************************************************)
(* SecureCheckout on its own: the component has just been mounted by       *)
(* handlePayment over a valid card draft, and only its own handlers and    *)
(* timers act.                                                             *)
(***************************************************************************)
CheckoutDraft(card) ==
    [EmptyPaymentInfo EXCEPT
        !.email = EmailA,
        !.cardNumber = formatCardNumber(card),
        !.expirationMonth = <<"1", "2">>,
        !.expirationYear = <<"2", "8">>,
        !.cvc = <<"1", "2", "3">>]

InitCheckout ==
    /\ strictMode \in BOOLEAN
    /\ route = "paywall"
    /\ urlLanguage \in Languages
    /\ page = "paywall"
    /\ store = [EmptyStore EXCEPT !.user_email = EmailA]
    /\ \E card \in CardInputs, plan \in Plans :
          /\ appState = [getInitialState(EmptyStore, urlLanguage) EXCEPT
                            !.paymentInfo = CheckoutDraft(card),
                            !.selectedPlan = plan]
          /\ formState = [InitialFormState(CheckoutDraft(card)) EXCEPT
                            !.expirationInput = <<"1", "2", "/", "2", "8">>]
    /\ plansLoaded = TRUE
    /\ showSecureCheckout = TRUE
    /\ sc = MountedCheckout
    /\ loadTimerRef = "load"
    /\ authTimerRef = "null"
    /\ activeTimers = MountTimers(strictMode)
    /\ delivered = <<>>
    /\ routedMessage = "none"
    /\ outcome = "none"
    /\ userEmail = Undefined
    /\ tracked = <<"payment_initiated">>
    /\ conversions = 0
    /\ headerState = HeaderStateOf(appState)
    /\ apiCall = NoCall
    /\ onboardingForm = InitialOnboardingForm(appState.onboardingData)

NextCheckout ==
    \/ OrphanLoadTimerFires
    \/ LoadTimerFires
    \/ AuthTimerTicks
    \/ \E value \in PasswordInputs : SetPassword(value)
    \/ handleSubmit
    \/ ProcessingTimerFires
    \/ handleCancel

\* a pending timer of the browser eventually fires
LiveSpec == InitCheckout /\ [][NextCheckout]_vars /\ WF_vars(TimerStep)

(***************************************************************************)
(* SuccessPage's email recovery on its own: the page is rendered over any  *)
(* in-memory email and any content of the two localStorage keys.           *)
(***************************************************************************)
RecoverInputs == {Undefined, <<>>, <<"a", "@", "b">>, EmailA}

InitRecover ==
    /\ strictMode = FALSE
    /\ route = "success"
    /\ urlLanguage = "en"
    /\ page = "success"
    /\ \E key \in RecoverInputs, snap \in RecoverInputs, hasSnap \in BOOLEAN :
          store = [EmptyStore EXCEPT
                      !.user_email = key,
                      !.app_state =
                          IF hasSnap
                          THEN [present |-> TRUE,
                                state |-> [INITIAL_STATE EXCEPT !.paymentInfo.email = snap]]
                          ELSE NoSnapshot]
    /\ \E mem \in RecoverInputs :
          appState = [INITIAL_STATE EXCEPT !.paymentInfo.email = mem]
    /\ plansLoaded = FALSE
    /\ formState = InitialFormState(EmptyPaymentInfo)
    /\ showSecureCheckout = FALSE
    /\ sc = NoCheckout
    /\ loadTimerRef = "null"
    /\ authTimerRef = "null"
    /\ activeTimers = {}
    /\ delivered = <<>>
    /\ routedMessage = "none"
    /\ outcome = "none"
    /\ userEmail = Undefined
    /\ tracked = <<>>
    /\ conversions = 0
    /\ headerState = HeaderStateOf(appState)
    /\ apiCall = NoCall
    /\ onboardingForm = InitialOnboardingForm(appState.onboardingData)

\* SuccessPage's render: lines 15-33
RenderSuccessPage ==
    /\ page = "success"
    /\ userEmail' = RecoverEmail(appState.paymentInfo.email, store)
    /\ UNCHANGED <<strictMode, headerState, apiCall, onboardingForm, route, urlLanguage, page, store, appState,
                   plansLoaded, formState, showSecureCheckout, sc, loadTimerRef,
                   authTimerRef, activeTimers, delivered, routedMessage, outcome,
                   tracked, conversions>>

RecoverSpec == InitRecover /\ [][RenderSuccessPage]_vars

(***************************************************************************)
(* The payment form on its own: the paywall has just been opened and its   *)
(* plans have arrived; the user edits the draft and submits it.  The card  *)
(* numbers typed include ones that fail validateCardNumber.                *)
(***************************************************************************)
BadChecksumDigits == [i \in 1..16 |-> IF i = 16 THEN "3" ELSE IF i % 2 = 1 THEN "4" ELSE "2"]
ShortCardDigits == <<"1", "2", "3", "4">>

FormEmailInputs == EmailInputs \cup {<<" ">>}
FormCardInputs == CardInputs \cup {<<>>, ShortCardDigits, BadChecksumDigits}
FormExpirationInputs == ExpirationInputs \cup {<<>>, <<"1", "2">>}
FormCvcInputs == CvcInputs \cup {<<>>, <<" ">>}

InitForm ==
    /\ strictMode \in BOOLEAN
    /\ route = "paywall"
    /\ urlLanguage = "en"
    /\ page = "paywall"
    /\ store = EmptyStore
    /\ appState = [getInitialState(EmptyStore, urlLanguage) EXCEPT
                      !.selectedPlan = FreePlan]
    /\ plansLoaded = TRUE
    /\ formState = InitialFormState(EmptyPaymentInfo)
    /\ showSecureCheckout = FALSE
    /\ sc = NoCheckout
    /\ loadTimerRef = "null"
    /\ authTimerRef = "null"
    /\ activeTimers = {}
    /\ delivered = <<>>
    /\ routedMessage = "none"
    /\ outcome = "none"
    /\ userEmail = Undefined
    /\ tracked = <<>>
    /\ conversions = 0
    /\ headerState = HeaderStateOf(appState)
    /\ apiCall = NoCall
    /\ onboardingForm = InitialOnboardingForm(appState.onboardingData)

NextForm ==
    \/ \E method \in PaymentMethods : ChangePaymentMethod(method)
    \/ \E value \in FormEmailInputs : ChangeEmail(value)
    \/ \E value \in FormCardInputs : ChangeCardNumber(value)
    \/ \E value \in FormExpirationInputs : ChangeExpiration(value)
    \/ \E value \in FormCvcInputs : ChangeCvc(value)
    \/ \E value \in CountryInputs : ChangeCountry(value)
    \/ handlePayment

FormSpec == InitForm /\ [][NextForm]_vars

(***************************************************************************)
(* Language and direction on their own: the application is opened over any *)
(* content of the app_state key, which it reads and never writes; the user *)
(* switches the language, loads pages and resets from the success page.    *)
(***************************************************************************)
Directions == {"ltr", "rtl"}

LanguageSnapshots ==
    {NoSnapshot} \cup
    {[present |-> TRUE,
      state |-> [INITIAL_STATE EXCEPT !.language = l, !.direction = d]] :
        l \in Languages, d \in Directions}

InitLanguage ==
    /\ strictMode \in BOOLEAN
    /\ route = "onboarding1"
    /\ urlLanguage \in Languages
    /\ page = "onboarding1"
    /\ \E snapshot \in LanguageSnapshots :
          store = [EmptyStore EXCEPT !.app_state = snapshot]
    /\ appState = getInitialState(store, urlLanguage)
    /\ headerState = HeaderStateOf(appState)
    /\ apiCall = NoCall
    /\ onboardingForm = InitialOnboardingForm(appState.onboardingData)
    /\ plansLoaded = FALSE
    /\ formState = InitialFormState(appState.paymentInfo)
    /\ showSecureCheckout = FALSE
    /\ sc = NoCheckout
    /\ loadTimerRef = "null"
    /\ authTimerRef = "null"
    /\ activeTimers = {}
    /\ delivered = <<>>
    /\ routedMessage = "none"
    /\ outcome = "none"
    /\ userEmail = Undefined
    /\ tracked = <<>>
    /\ conversions = 0

NextLanguage ==
    \/ handleLanguageToggle
    \/ \E r \in Pages : OpenUrl(r, FALSE)
    \/ CommitRoute
    \/ resetState

LanguageSpec == InitLanguage /\ [][NextLanguage]_vars

(***************************************************************************)
(* validateForm on its own: the form holds any draft of the field values   *)
(* below and the payment button is pressed.                                *)
(***************************************************************************)
DraftEmails == {Undefined, <<>>, <<" ">>, <<"a", "@", "b">>, EmailA}
DraftCardNumbers == {Undefined, <<>>, <<" ">>, formatCardNumber(ShortCardDigits)}
DraftMonths == {Undefined, <<>>, <<"0", "1">>, <<"1", "2">>, <<"1", "3">>}
DraftYears == {Undefined, <<>>, <<"2", "0">>, <<"2", "6">>, <<"2", "8">>}
DraftCvcs == {Undefined, <<>>, <<" ">>, <<"1", "2", "3">>}
DraftCountries == {"undefined", "", "usa"}

InitValidate ==
    /\ strictMode = FALSE
    /\ route = "paywall"
    /\ urlLanguage = "en"
    /\ page = "paywall"
    /\ store = EmptyStore
    /\ appState = [getInitialState(EmptyStore, urlLanguage) EXCEPT
                      !.selectedPlan = FreePlan]
    /\ plansLoaded = TRUE
    /\ \E email \in DraftEmails, cardNumber \in DraftCardNumbers,
          month \in DraftMonths, year \in DraftYears, cvc \in DraftCvcs,
          country \in DraftCountries, method \in PaymentMethods :
          formState =
             [paymentInfo |->
                 [EmptyPaymentInfo EXCEPT
                     !.email = email, !.cardNumber = cardNumber,
                     !.expirationMonth = month, !.expirationYear = year,
                     !.cvc = cvc, !.country = country,
                     !.paymentMethod = method],
              expirationInput |-> <<>>,
              errors |-> NoErrors]
    /\ showSecureCheckout = FALSE
    /\ sc = NoCheckout
    /\ loadTimerRef = "null"
    /\ authTimerRef = "null"
    /\ activeTimers = {}
    /\ delivered = <<>>
    /\ routedMessage = "none"
    /\ outcome = "none"
    /\ userEmail = Undefined
    /\ tracked = <<>>
    /\ conversions = 0
    /\ headerState = HeaderStateOf(appState)
    /\ apiCall = NoCall
    /\ onboardingForm = InitialOnboardingForm(appState.onboardingData)

ValidateSpec == InitValidate /\ [][handlePayment]_vars

(***************************************************************************)
(* ApiService (services/api.ts): one call at a time, from its start to the *)
(* value its promise resolves with.  The outcome of fetch is the           *)
(* network's choice; the fallbacks' delays are timers of the browser.      *)
(***************************************************************************)
ReferenceCalls == {"getPlans", "getSubscriptionPlans", "getLunchTypes",
                   "getTestimonials", "getReviews", "getCountries"}

\* how a fetch and the reading of its body can end: a 2xx response with a
\* JSON body, a 2xx response whose body is not JSON, another status, a
\* rejection (no connection, the browser's timeout)
FetchOutcomes == {"ok", "invalidJson", "httpError", "rejected"}

OnboardingSteps == {1, 2}
OnboardingInputs ==
    {NoAnswers, [lunchType |-> ""], [lunchType |-> "light"],
     [weight |-> 0], [weight |-> -5], [weight |-> 70],
     [lunchType |-> "light", weight |-> 70]}
StoredAnswers == {NoAnswers, [lunchType |-> "heavy"],
                  [lunchType |-> "heavy", weight |-> 80]}

\* { ...existingData, ...data }
MergeAnswers(existingData, data) ==
    [k \in DOMAIN existingData \cup DOMAIN data |->
        IF k \in DOMAIN data THEN data[k] ELSE existingData[k]]

\* the message of the error the step's validation throws, or "none"
StepValidationError(step, data) ==
    IF step = 1 /\ ("lunchType" \notin DOMAIN data \/ data.lunchType = "")
    THEN "Lunch type is required"
    ELSE IF step = 2 /\ ("weight" \notin DOMAIN data \/ data.weight <= 0)
    THEN "Valid weight is required"
    ELSE "none"

ApiFrame ==
    UNCHANGED <<strictMode, headerState, route, urlLanguage, page, appState,
                plansLoaded, formState, showSecureCheckout, sc, loadTimerRef,
                authTimerRef, activeTimers, delivered, routedMessage, outcome,
                userEmail, tracked, conversions, onboardingForm>>

Resolved(call, dataSet, answers) ==
    [call EXCEPT !.phase = "done",
                 !.result = [success |-> TRUE, dataSet |-> dataSet,
                             answers |-> answers, error |-> "none"]]

Rejected(call, error) ==
    [call EXCEPT !.phase = "done",
                 !.result = [success |-> FALSE, dataSet |-> "none",
                             answers |-> NoAnswers, error |-> error]]

\* getPlans, getSubscriptionPlans, getLunchTypes, getTestimonials,
\* getReviews, getCountries up to their await of fetch
CallReferenceData(name) ==
    /\ apiCall.phase = "idle"
    /\ apiCall' = [NoCall EXCEPT !.name = name, !.phase = "fetch"]
    /\ UNCHANGED store
    /\ ApiFrame

\* submitOnboardingStep up to its await of fetch, or to the fallback's delay
\* when the validation throws
submitOnboardingStep(step, data) ==
    /\ apiCall.phase = "idle"
    /\ apiCall' = [NoCall EXCEPT
                      !.name = "submitOnboardingStep", !.step = step,
                      !.data = data,
                      !.phase = IF StepValidationError(step, data) # "none"
                                THEN "fallbackDelay" ELSE "fetch"]
    /\ UNCHANGED store
    /\ ApiFrame

\* a fallback that gives up when the server answers with an error status
FetchSettles_ErrorStatusFails(fetchOutcome) ==
    /\ apiCall.phase = "fetch"
    /\ IF fetchOutcome = "httpError"
       THEN /\ apiCall' = Rejected(apiCall, "HTTP error")
            /\ UNCHANGED store
       ELSE IF fetchOutcome # "ok"
       THEN /\ apiCall' = [apiCall EXCEPT !.phase = "fallbackDelay"]
            /\ UNCHANGED store
       ELSE IF apiCall.name \in ReferenceCalls
       THEN /\ apiCall' = Resolved(apiCall, "server", NoAnswers)
            /\ UNCHANGED store
       ELSE LET updatedData == MergeAnswers(store.onboarding_data, apiCall.data)
            IN  /\ store' = [store EXCEPT !.onboarding_data = updatedData]
                /\ apiCall' = Resolved(apiCall, "none", updatedData)
    /\ ApiFrame

\* the rest of the try block once fetch and response.json() have settled,
\* or the catch block's call of the fallback
FetchSettles(fetchOutcome) ==
    /\ apiCall.phase = "fetch"
    /\ IF fetchOutcome # "ok"
       THEN /\ apiCall' = [apiCall EXCEPT !.phase = "fallbackDelay"]
            /\ UNCHANGED store
       ELSE IF apiCall.name \in ReferenceCalls
       THEN /\ apiCall' = Resolved(apiCall, "server", NoAnswers)
            /\ UNCHANGED store
       ELSE LET updatedData == MergeAnswers(store.onboarding_data, apiCall.data)
            IN  /\ store' = [store EXCEPT !.onboarding_data = updatedData]
                /\ apiCall' = Resolved(apiCall, "none", updatedData)
    /\ ApiFrame

\* a fallback of submitOnboardingStep that stores the answers before it
\* validates them
FallbackTimerFires_StoresFirst ==
    /\ apiCall.phase = "fallbackDelay"
    /\ IF apiCall.name \in ReferenceCalls
       THEN /\ apiCall' = Resolved(apiCall, "fallback", NoAnswers)
            /\ UNCHANGED store
       ELSE LET updatedData == MergeAnswers(store.onboarding_data, apiCall.data)
                error == StepValidationError(apiCall.step, apiCall.data)
            IN  /\ store' = [store EXCEPT !.onboarding_data = updatedData]
                /\ apiCall' = IF error # "none" THEN Rejected(apiCall, error)
                              ELSE Resolved(apiCall, "none", updatedData)
    /\ ApiFrame

\* the fallbacks after their delay: the built-in data set, or
\* submitOnboardingStepFallback's validation and write
FallbackTimerFires ==
    /\ apiCall.phase = "fallbackDelay"
    /\ IF apiCall.name \in ReferenceCalls
       THEN /\ apiCall' = Resolved(apiCall, "fallback", NoAnswers)
            /\ UNCHANGED store
       ELSE LET updatedData == MergeAnswers(store.onboarding_data, apiCall.data)
                error == StepValidationError(apiCall.step, apiCall.data)
            IN  IF error # "none"
                THEN /\ apiCall' = Rejected(apiCall, error)
                     /\ UNCHANGED store
                ELSE /\ store' = [store EXCEPT !.onboarding_data = updatedData]
                     /\ apiCall' = Resolved(apiCall, "none", updatedData)
    /\ ApiFrame

\* the caller takes the resolved value
CallReturns ==
    /\ apiCall.phase = "done"
    /\ apiCall' = NoCall
    /\ UNCHANGED store
    /\ ApiFrame

InitApi ==
    /\ strictMode = FALSE
    /\ route = "onboarding1"
    /\ urlLanguage = "en"
    /\ page = "onboarding1"
    /\ \E answers \in StoredAnswers :
          store = [EmptyStore EXCEPT !.onboarding_data = answers]
    /\ appState = getInitialState(store, urlLanguage)
    /\ plansLoaded = FALSE
    /\ formState = InitialFormState(EmptyPaymentInfo)
    /\ showSecureCheckout = FALSE
    /\ sc = NoCheckout
    /\ loadTimerRef = "null"
    /\ authTimerRef = "null"
    /\ activeTimers = {}
    /\ delivered = <<>>
    /\ routedMessage = "none"
    /\ outcome = "none"
    /\ userEmail = Undefined
    /\ tracked = <<>>
    /\ conversions = 0
    /\ headerState = HeaderStateOf(appState)
    /\ apiCall = NoCall
    /\ onboardingForm = InitialOnboardingForm(appState.onboardingData)

NextApi ==
    \/ \E name \in ReferenceCalls : CallReferenceData(name)
    \/ \E step \in OnboardingSteps, data \in OnboardingInputs :
          submitOnboardingStep(step, data)
    \/ \E fetchOutcome \in FetchOutcomes : FetchSettles(fetchOutcome)
    \/ FallbackTimerFires
    \/ CallReturns

\* the fallback's setTimeout fires
ApiSpec == InitApi /\ [][NextApi]_vars /\ WF_vars(FallbackTimerFires)

(***************************************************************************)
(* Properties                                                              *)
(***************************************************************************)
RevealTimers == {"load", "orphanLoad"}
CountdownTimers == {"auth", "orphanAuth"}

C3_CountdownExpires ==
    /\ (CheckoutState = "Authenticating")
          ~> \/ /\ outcome = "AuthExpired"
                /\ route = "paymentCancel"
                /\ routedMessage = "none"
             \/ CheckoutState \in {"Processing", "Cancelled", "NoSession",
                                   "SelectingPlan", "EnteringPayment"}
    /\ [][(AuthTimerTicks /\ sc.timeLeft = 1)
            => (outcome' = "AuthExpired" /\ route' = "paymentCancel"
                /\ routedMessage' = "none")]_vars

C3_Witness ==
    /\ outcome = "AuthExpired"
    /\ route = "paymentCancel"
    /\ page = "paywall"
    /\ ~showSecureCheckout

\* C4: submitting a valid draft with PayPal or Apple Pay and a selected plan
\* goes straight to Succeeded on the success page, and the authentication
\* step is only ever shown for a card draft.
C4_NonCardBypass ==
    /\ [][(/\ handlePayment
            /\ formState.paymentInfo.paymentMethod \in {"paypal", "apple-pay"}
            /\ validateEmail(formState.paymentInfo.email))
            => (outcome' = "Succeeded" /\ route' = "success"
                /\ ~showSecureCheckout')]_vars
    /\ [](showSecureCheckout => formState.paymentInfo.paymentMethod = "card")

C4_Witness ==
    /\ outcome = "Succeeded"
    /\ route = "success"
    /\ page = "paywall"
    /\ formState.paymentInfo.paymentMethod = "apple-pay"

\* C5: in EnteringPayment and in Authenticating, the reveal phase included,
\* the user can cancel, and after a cancellation no timer is running.
C5_CancelAlways ==
    /\ (Committed /\ CheckoutState \in {"EnteringPayment", "Authenticating"})
          => ENABLED handleCancel
    /\ outcome = "Cancelled" => activeTimers = {}

\* a page load that finds the separately stored email key gone
ReloadWithoutEmailKey == OpenUrl("success", TRUE)

\* C6: when the email field holds x and the page is reloaded with the
\* separately stored key absent, the email recovered after the reload is x.
C6_EmailSurvivesReload ==
    [][(ReloadWithoutEmailKey /\ ~Falsy(appState.paymentInfo.email))
         => RecoverEmail(appState'.paymentInfo.email, store')
              = appState.paymentInfo.email]_vars

\* a change of one payment field of the form
PaymentFieldChange ==
    \/ \E method \in PaymentMethods : ChangePaymentMethod(method)
    \/ \E value \in EmailInputs : ChangeEmail(value)
    \/ \E value \in CardInputs : ChangeCardNumber(value)
    \/ \E value \in ExpirationInputs : ChangeExpiration(value)
    \/ \E value \in CvcInputs : ChangeCvc(value)
    \/ \E value \in CountryInputs : ChangeCountry(value)

\* C7: every change of a payment field leaves a stored snapshot whose
\* payment fields are the ones in memory.
C7_SnapshotFollowsDraft ==
    [][PaymentFieldChange
         => (/\ store'.app_state.present
             /\ store'.app_state.state.paymentInfo = appState'.paymentInfo)]_vars

\* C8: a reset removes the separately stored email and the snapshot and
\* leaves the app state at step 1, empty data, English, left-to-right.
C8_ResetClears ==
    [][resetState
         => (/\ store'.user_email = Undefined
             /\ ~store'.app_state.present
             /\ appState'.currentStep = 1
             /\ appState'.onboardingData = EmptyOnboardingData
             /\ appState'.paymentInfo = EmptyPaymentInfo
             /\ appState'.selectedPlan = NoPlan
             /\ appState'.language = "en"
             /\ appState'.direction = "ltr")]_vars

C8_Witness ==
    /\ page = "success"
    /\ route = "onboarding1"
    /\ urlLanguage = "ar"
    /\ store.user_email = Undefined
    /\ appState.language = "en"
    /\ outcome = "Succeeded"

\* the sources of the email in the order the claim gives them
EmailSources ==
    <<appState.paymentInfo.email,
      store.user_email,
      IF store.app_state.present
      THEN store.app_state.state.paymentInfo.email ELSE Undefined>>

\* C9: the email shown is the first non-empty one of the in-memory email,
\* the separately stored key and the snapshot's email, in this order, and is
\* empty when all three are.
C9_EmailPriority ==
    [][RenderSuccessPage
         => IF \E i \in 1..3 : ~Falsy(EmailSources[i])
            THEN \E i \in 1..3 :
                    /\ ~Falsy(EmailSources[i])
                    /\ \A j \in 1..(i - 1) : Falsy(EmailSources[j])
                    /\ userEmail' = EmailSources[i]
            ELSE Falsy(userEmail')]_vars

C9_Witness ==
    /\ page = "success"
    /\ userEmail = EmailA
    /\ Falsy(appState.paymentInfo.email)
    /\ Falsy(store.user_email)
    /\ store.app_state.present

\* C10: a step that ends the checkout routes Succeeded to a success page,
\* Declined to the error page with a message, and AuthExpired and the user's
\* cancellation to the cancel page without a message.
C10_OutcomeRouting ==
    [][(outcome' # outcome /\ outcome' # "none")
         => CASE outcome' = "Succeeded" ->
                    /\ route' \in {"paymentSuccess", "success"}
                    /\ routedMessage' = "none"
                    /\ errorInfo(route') = "none"
              [] outcome' = "Declined" ->
                    /\ route' = "paymentError"
                    /\ routedMessage' # "none"
                    /\ errorInfo(route') # "none"
              [] outcome' \in {"AuthExpired", "Cancelled"} ->
                    /\ route' = "paymentCancel"
                    /\ routedMessage' = "none"
                    /\ errorInfo(route') = "none"]_vars

C10_Witness ==
    /\ outcome = "Declined"
    /\ route = "paymentError"
    /\ routedMessage = "paymentFailed"
    /\ page = "paywall"

\* the scenario's draft: free-trial plan, PayPal, a valid email
FreeTrialPayPalDraft ==
    /\ OnPaywallForm
    /\ appState.selectedPlan = FreePlan
    /\ formState.paymentInfo.paymentMethod = "paypal"
    /\ ~Falsy(formState.paymentInfo.email)
    /\ validateEmail(formState.paymentInfo.email)

\* C11: with the free-trial plan, PayPal and a valid email one submit leads
\* at once to Succeeded, and when the success page is shown the conversion
\* event has been tracked exactly once.
C11_ConversionOnce ==
    /\ [][(handlePayment /\ FreeTrialPayPalDraft)
            => (outcome' = "Succeeded" /\ route' = "success"
                /\ CountConversions(tracked') = 0)]_vars
    /\ [][(CommitRoute /\ page = "paywall" /\ outcome = "Succeeded"
           /\ formState.paymentInfo.paymentMethod = "paypal"
           /\ appState.selectedPlan = FreePlan)
            => (page' = "success" /\ conversions' = 1)]_vars

\* a card draft with the decline card, every field filled in, a plan selected
DeclineCardDraft ==
    /\ appState.selectedPlan # NoPlan
    /\ formState.paymentInfo.paymentMethod = "card"
    /\ formState.paymentInfo.cardNumber = formatCardNumber(DeclineCardDigits)
    /\ ~Falsy(formState.paymentInfo.email)
    /\ validateEmail(formState.paymentInfo.email)
    /\ ~Falsy(formState.paymentInfo.expirationMonth)
    /\ ~Falsy(formState.paymentInfo.expirationYear)
    /\ ~Falsy(formState.paymentInfo.cvc)
    /\ formState.paymentInfo.country \notin {"undefined", ""}

\* the end of processing over the decline card
DeclineCardDeclined ==
    [][(ProcessingTimerFires
        /\ formState.paymentInfo.cardNumber = formatCardNumber(DeclineCardDigits))
         => (outcome' = "Declined" /\ route' = "paymentError")]_vars

PageLoad == \E r \in Pages, emailKeyLost \in BOOLEAN : OpenUrl(r, emailKeyLost)

\* C13: while Processing, no handler of the user and no countdown or reveal
\* timer is enabled, and the only step of the running program that leaves
\* Processing is the end of the three-second delay, to Succeeded or Declined.
C13_ProcessingUninterrupted ==
    /\ [](CheckoutState = "Processing"
            => /\ ~ENABLED handleCancel
               /\ ~ENABLED handleSubmit
               /\ ~ENABLED AuthTimerTicks
               /\ ~ENABLED LoadTimerFires
               /\ "processing" \in activeTimers)
    /\ [][(CheckoutState = "Processing" /\ ~PageLoad)
            => \/ CheckoutState' = "Processing"
               \/ /\ ProcessingTimerFires
                  /\ outcome' \in {"Succeeded", "Declined"}]_vars

C13_Witness ==
    /\ CheckoutState = "Processing"
    /\ "orphanAuth" \in activeTimers
    /\ tracked = <<"processing_started">>

\* steps the program takes without the user: commits of a navigation, the
\* plans' arrival, timers, the success page's redirect
AutomaticStep ==
    CommitRoute \/ LoadData \/ TimerStep \/ PaymentSuccessRedirect

FailedOutcomes == {"Declined", "AuthExpired"}

\* C14: after Declined or AuthExpired the steps the program takes on its own
\* leave the outcome and its destination alone and show no authentication;
\* the destination is left only by the user's retry, go-home or page load;
\* and a retry arrives at plan selection or payment entry.
C14_NoAutomaticRetry ==
    /\ [][(/\ outcome \in FailedOutcomes
           /\ route \in {"paymentError", "paymentCancel"}
           /\ AutomaticStep)
            => (outcome' = outcome /\ route' = route /\ ~showSecureCheckout')]_vars
    /\ [][(outcome \in FailedOutcomes /\ route' # route)
            => (handleRetryPayment \/ handleGoHome \/ PageLoad)]_vars
    /\ [][(outcome \in FailedOutcomes /\ handleRetryPayment) => route' = "paywall"]_vars
    /\ [][(outcome \in FailedOutcomes /\ outcome' # outcome)
            => CheckoutState' \in {"SelectingPlan", "EnteringPayment", "NoSession"}]_vars

C14_Witness ==
    /\ outcome \in FailedOutcomes
    /\ page \in {"paymentError", "paymentCancel"}
    /\ route = "paywall"

\* EnteringPayment, on the form, with a draft the validation rejects
InvalidDraftOnForm ==
    /\ CheckoutState = "EnteringPayment"
    /\ OnPaywallForm
    /\ validateForm(formState.paymentInfo) # NoErrors

\* a submit of the payment form whose validation finds an error
FailedSubmit == handlePayment /\ InvalidDraftOnForm

\* C15: a submit from EnteringPayment whose validation finds errors stays in
\* EnteringPayment on the form, shows the errors, tracks validation_failed
\* and nothing else, and leaves the draft and the plan as they were, so the
\* same submit is enabled again and fails again; the steps the program takes
\* on its own afterwards never leave EnteringPayment.
C15_FailedSubmitStays ==
    /\ [][FailedSubmit
            => /\ CheckoutState' = "EnteringPayment"
               /\ OnPaywallForm'
               /\ tracked' = <<"validation_failed">>
               /\ formState'.errors = validateForm(formState.paymentInfo)
               /\ formState'.paymentInfo = formState.paymentInfo
               /\ appState' = appState]_vars
    /\ []((InvalidDraftOnForm /\ tracked = <<"validation_failed">>)
            => ENABLED FailedSubmit)
    /\ [][(InvalidDraftOnForm /\ AutomaticStep)
            => CheckoutState' = "EnteringPayment"]_vars

\* a submit has just failed for the second time in a row over a card draft
C15_Witness ==
    /\ CheckoutState = "EnteringPayment"
    /\ OnPaywallForm
    /\ tracked = <<"validation_failed">>
    /\ formState.paymentInfo.paymentMethod = "card"
    /\ formState.errors = validateForm(formState.paymentInfo)
    /\ formState.errors.cardNumber = "cardNumberRequired"
    /\ formState.errors.email = "emailInvalid"

\* a draft of the card method that the validation accepts
ValidCardDraft ==
    /\ CheckoutState = "EnteringPayment"
    /\ formState.paymentInfo.paymentMethod = "card"
    /\ validateForm(formState.paymentInfo) = NoErrors

\* C16: a submit of a card draft that passes the validation opens the
\* authentication step, whether or not validateCardNumber accepts the card
\* number, and a submit never leaves an error on a card number that is not
\* empty.
C16_CardSubmitAuthenticates ==
    /\ [][(handlePayment /\ ValidCardDraft)
            => /\ CheckoutState' = "Authenticating"
               /\ sc' = MountedCheckout
               /\ tracked' = <<"payment_initiated">>
               /\ formState'.errors = NoErrors]_vars
    /\ [][(handlePayment /\ Trim(formState.paymentInfo.cardNumber) # <<>>
                         /\ ~Falsy(formState.paymentInfo.cardNumber))
            => formState'.errors.cardNumber = ""]_vars

\* Authenticating was entered over a card number that fails the checksum
C16_Witness ==
    /\ CheckoutState = "Authenticating"
    /\ sc = MountedCheckout
    /\ tracked = <<"payment_initiated">>
    /\ ~validateCardNumber(formState.paymentInfo.cardNumber)
    /\ StripNonDigits(formState.paymentInfo.cardNumber) = BadChecksumDigits

\* a submit of the authentication form over an empty password changes
\* nothing but the error shown: the countdown and its timer stay
EmptyPasswordRejected ==
    [][(handleSubmit /\ sc.password = <<>>)
        => /\ CheckoutState' = "Authenticating"
           /\ sc' = [sc EXCEPT !.error = "passwordRequired"]
           /\ tracked' = <<"validation_failed">>
           /\ authTimerRef' = authTimerRef
           /\ activeTimers' = activeTimers
           /\ "auth" \in activeTimers']_vars

\* C17 as stated: a submit of the authentication form with an empty password
\* is rejected, leaving Authenticating with its countdown running, and a
\* submit with any password that is not empty starts Processing.
C17_PasswordSubmit ==
    /\ EmptyPasswordRejected
    /\ [][(handleSubmit /\ sc.password # <<>>)
            => (CheckoutState' = "Processing" /\ sc'.step = "processing")]_vars

\* C17 amended: the empty password is rejected as stated, a password of
\* whitespace only is rejected in the same way, and a submit with any
\* password that is not empty after trimming starts Processing.
C17_PasswordSubmitTrimmed ==
    /\ EmptyPasswordRejected
    /\ [][(handleSubmit /\ Trim(sc.password) = <<>>)
            => (CheckoutState' = "Authenticating" /\ sc'.step = "auth"
                /\ sc'.error = "passwordRequired")]_vars
    /\ [][(handleSubmit /\ Trim(sc.password) # <<>>)
            => (CheckoutState' = "Processing" /\ sc'.step = "processing"
                /\ "processing" \in activeTimers')]_vars

\* the empty password has just been rejected while the countdown runs
C17_Witness ==
    /\ CheckoutState = "Authenticating"
    /\ sc.step = "auth"
    /\ sc.password = <<>>
    /\ sc.error = "passwordRequired"
    /\ tracked = <<"validation_failed">>
    /\ sc.timeLeft < AuthSeconds
    /\ "auth" \in activeTimers

CardSubFields == {"cardNumber", "expirationMonth", "expirationYear", "cvc"}
CardErrorKeys == {"cardNumber", "expiration", "cvc"}

\* C18: setting the payment method, to the selected method or another one,
\* empties the card number, the expiration month and year and the CVC (in the
\* form and in the hook's state), removes their errors, and leaves email,
\* country and cardholder name and the other errors as they were.
C18_MethodChangeFrame ==
    [][\A method \in PaymentMethods :
          ChangePaymentMethod(method)
            => /\ formState'.paymentInfo.paymentMethod = method
               /\ \A f \in CardSubFields :
                     /\ formState'.paymentInfo[f] = <<>>
                     /\ appState'.paymentInfo[f] = <<>>
               /\ formState'.expirationInput = <<>>
               /\ \A k \in CardErrorKeys : formState'.errors[k] = ""
               /\ \A f \in {"email", "country", "cardholderName"} :
                     /\ formState'.paymentInfo[f] = formState.paymentInfo[f]
                     /\ appState'.paymentInfo[f] = appState.paymentInfo[f]
               /\ \A k \in ErrorKeys \ CardErrorKeys :
                     formState'.errors[k] = formState.errors[k]]_vars

\* a method other than card is selected, the card fields hold the empty
\* strings the change wrote, and the email and its error are still there
C18_Witness ==
    /\ OnPaywallForm
    /\ formState.paymentInfo.paymentMethod = "paypal"
    /\ \A f \in CardSubFields : formState.paymentInfo[f] = <<>>
    /\ formState.paymentInfo.email = <<"a", "@", "b">>
    /\ formState.errors.email = "emailInvalid"
    /\ formState.paymentInfo.country = "usa"
    /\ \A k \in CardErrorKeys : formState.errors[k] = ""

\* C19: in the reducer state of the shown page's useAppState and of its
\* Header's, direction is rtl when language is ar and ltr otherwise, after
\* every bootstrap (whatever app_state holds), language switch and reset.
C19_DirectionFollowsLanguage ==
    /\ appState.direction = (IF appState.language = "ar" THEN "rtl" ELSE "ltr")
    /\ headerState.direction = (IF headerState.language = "ar" THEN "rtl" ELSE "ltr")

\* the application was opened in English over a snapshot that pairs en with
\* rtl, and the language was then switched to Arabic
C19_Witness ==
    /\ store.app_state.present
    /\ store.app_state.state.language = "en"
    /\ store.app_state.state.direction = "rtl"
    /\ appState.language = "en"
    /\ headerState.language = "ar"
    /\ headerState.direction = "rtl"
    /\ urlLanguage = "ar"

\* the expiration's month and year are both filled in
ExpirationPresent(info) ==
    ~Falsy(info.expirationMonth) /\ ~Falsy(info.expirationYear)

\* the month and year name a month that is not before the current one
NotExpired(info) ==
    \/ ParseInt(info.expirationYear) > CurrentYear
    \/ /\ ParseInt(info.expirationYear) = CurrentYear
       /\ ParseInt(info.expirationMonth) >= CurrentMonth

MonthInRange(info) ==
    ParseInt(info.expirationMonth) >= 1 /\ ParseInt(info.expirationMonth) <= 12

ValidEmail(info) == ~Falsy(info.email) /\ validateEmail(info.email)

\* the statement's conditions for an empty error map
Accepted(info) ==
    /\ ValidEmail(info)
    /\ info.paymentMethod = "card"
         => /\ ~Falsy(info.cardNumber)
            /\ ExpirationPresent(info) /\ NotExpired(info)
            /\ ~Falsy(info.cvc)
            /\ info.country \notin {"undefined", ""}

\* the same with blank values counted as empty and the month within 1..12
AcceptedTrimmed(info) ==
    /\ ValidEmail(info)
    /\ info.paymentMethod = "card"
         => /\ ~Falsy(info.cardNumber) /\ Trim(info.cardNumber) # <<>>
            /\ ExpirationPresent(info) /\ MonthInRange(info) /\ NotExpired(info)
            /\ ~Falsy(info.cvc) /\ Trim(info.cvc) # <<>>
            /\ info.country \notin {"undefined", ""}

\* a missing expiration and a rejected one give different messages
ExpirationMessages ==
    [][handlePayment
        => LET info == formState.paymentInfo IN
           /\ formState'.errors.expiration = "expirationRequired"
                <=> (info.paymentMethod = "card" /\ ~ExpirationPresent(info))
           /\ formState'.errors.expiration = "expirationPast"
                <=> /\ info.paymentMethod = "card"
                    /\ ExpirationPresent(info)
                    /\ ~(MonthInRange(info) /\ NotExpired(info))]_vars

\* C20 as stated: the submit leaves an empty error map exactly when the email
\* is valid and, for the card method, the card number is not empty, the
\* expiration is present and not expired, the CVC is not empty and a country
\* is selected; a missing and an expired expiration get different messages.
C20_ValidateFormExact ==
    /\ [][handlePayment
            => (formState'.errors = NoErrors <=> Accepted(formState.paymentInfo))]_vars
    /\ ExpirationMessages

\* C20 amended: the same with a card number and a CVC that are not blank and
\* an expiration whose month is between 1 and 12.
C20_ValidateFormTrimmed ==
    /\ [][handlePayment
            => /\ formState'.errors = validateForm(formState.paymentInfo)
               /\ formState'.errors = NoErrors
                    <=> AcceptedTrimmed(formState.paymentInfo)]_vars
    /\ ExpirationMessages

\* a card draft was submitted with a valid email, an expired date and a
\* blank CVC
C20_Witness ==
    /\ OnPaywallForm
    /\ tracked = <<"validation_failed">>
    /\ formState.paymentInfo.paymentMethod = "card"
    /\ formState.paymentInfo.cvc = <<" ">>
    /\ formState.paymentInfo.expirationMonth = <<"0", "1">>
    /\ formState.paymentInfo.expirationYear = <<"2", "0">>
    /\ formState.errors.email = ""
    /\ formState.errors.expiration = "expirationPast"
    /\ formState.errors.cvc = "cvcRequired"

ReferenceCallEnded == apiCall.phase = "done" /\ apiCall.name \in ReferenceCalls

OnboardingCall(call) == call.name = "submitOnboardingStep"

\* step 1 without a lunch type, or step 2 with a weight that is missing or
\* not greater than zero
InvalidAnswers(call) ==
    \/ /\ call.step = 1
       /\ ("lunchType" \notin DOMAIN call.data \/ call.data.lunchType = "")
    \/ /\ call.step = 2
       /\ ("weight" \notin DOMAIN call.data \/ ~(call.data.weight > 0))

\* C22: a submitOnboardingStep over invalid answers never writes the stored
\* answers, whatever the fetch would have done, and resolves with success =
\* false and an error; over a lunch type (step 1) or a positive weight (step
\* 2) it resolves with success = true and the merged answers, which it has
\* stored; and a call waiting for its fallback ends.
C22_OnboardingStepValidation ==
    /\ [][(OnboardingCall(apiCall') /\ InvalidAnswers(apiCall'))
            => store'.onboarding_data = store.onboarding_data]_vars
    /\ []((OnboardingCall(apiCall) /\ apiCall.phase = "done")
            => IF InvalidAnswers(apiCall)
               THEN /\ ~apiCall.result.success
                    /\ apiCall.result.error # "none"
               ELSE /\ apiCall.result.success
                    /\ apiCall.result.error = "none"
                    /\ apiCall.result.answers = store.onboarding_data
                    /\ \A k \in DOMAIN apiCall.data :
                          store.onboarding_data[k] = apiCall.data[k])
    /\ (OnboardingCall(apiCall) /\ apiCall.phase = "fallbackDelay")
          ~> (OnboardingCall(apiCall) /\ apiCall.phase = "done")

\* step 2 was submitted with weight 0 over stored answers and was refused
C22_Witness ==
    /\ OnboardingCall(apiCall)
    /\ apiCall.phase = "done"
    /\ apiCall.step = 2
    /\ apiCall.data = [weight |-> 0]
    /\ ~apiCall.result.success
    /\ apiCall.result.error = "Valid weight is required"
    /\ store.onboarding_data = [lunchType |-> "heavy", weight |-> 80]

(***************************************************************************)
(* The expiration field on its own: the paywall form is open on the card   *)
(* method and the user replaces the field's content by any short text      *)
(* (typing, deleting, pasting); the field keeps the formatted text, which  *)
(* is the previous value of the next change.                               *)
(***************************************************************************)
MaxDraftLen == 4
DraftChars == {"0", "1", "2", "/"}
ExpirationDrafts == UNION {[1..n -> DraftChars] : n \in 0..MaxDraftLen}

InitExpiration == InitForm

NextExpiration == \E value \in ExpirationDrafts : ChangeExpiration(value)

ExpirationSpec == InitExpiration /\ [][NextExpiration]_vars

EndsWithSlash(s) == Len(s) > 0 /\ s[Len(s)] = "/"

\* the "is deleting" signal: fewer digits than the previous value had
IsDeletingFrom(value, previousValue) ==
    Len(StripNonDigits(value)) < Len(StripNonDigits(previousValue))

\* C23: formatExpirationDate tolerates deletion.  Whatever the field holds,
\* a change that leaves fewer digits than before (the deleting signal, taken
\* from the sanitized lengths) never yields a text ending in a slash, and
\* "1" after "12/" yields "1"; when typing, "3" after "" yields "03/", "12"
\* after "" yields "12/", "13" after "" yields "01/3" and "1234" after "123"
\* yields "12/34".
C23_FormatExpirationDeletion ==
    /\ formatExpirationDate(<<"1">>, <<"1", "2", "/">>) = <<"1">>
    /\ formatExpirationDate(<<"3">>, <<>>) = <<"0", "3", "/">>
    /\ formatExpirationDate(<<"1", "2">>, <<>>) = <<"1", "2", "/">>
    /\ formatExpirationDate(<<"1", "3">>, <<>>) = <<"0", "1", "/", "3">>
    /\ formatExpirationDate(<<"1", "2", "3", "4">>, <<"1", "2", "3">>)
          = <<"1", "2", "/", "3", "4">>
    /\ OnPaywallForm =>
          \A value \in ExpirationDrafts :
             IsDeletingFrom(value, formState.expirationInput) =>
                ~EndsWithSlash(formatExpirationDate(value, formState.expirationInput))

\* the field holds "12" with no slash, which only a deletion leaves behind
C23_Witness ==
    /\ OnPaywallForm
    /\ formState.expirationInput = <<"1", "2">>
    /\ formState.paymentInfo.expirationMonth = <<"1", "2">>
    /\ formState.paymentInfo.expirationYear = <<>>

(***************************************************************************)
(* validateExpirationDate on its own: a card draft that is complete but    *)
(* for its expiration is submitted; the month runs over 00..MaxDraftMonth  *)
(* and the year over the YearSpan years around the current one.            *)
(***************************************************************************)
MaxDraftMonth == 13
YearSpan == 3

TwoDigits(n) == <<DigitChar(n \div 10), DigitChar(n % 10)>>

ExpiryMonths == {TwoDigits(n) : n \in 0..MaxDraftMonth}
ExpiryYears == {TwoDigits(n) : n \in (CurrentYear - YearSpan)..(CurrentYear + YearSpan)}

InitExpiry ==
    /\ strictMode = FALSE
    /\ route = "paywall"
    /\ urlLanguage = "en"
    /\ page = "paywall"
    /\ store = EmptyStore
    /\ appState = [getInitialState(EmptyStore, urlLanguage) EXCEPT
                      !.selectedPlan = FreePlan]
    /\ plansLoaded = TRUE
    /\ \E month \in ExpiryMonths, year \in ExpiryYears :
          formState =
             [paymentInfo |->
                 [EmptyPaymentInfo EXCEPT
                     !.email = EmailA,
                     !.cardNumber = formatCardNumber(SuccessCardDigits),
                     !.expirationMonth = month, !.expirationYear = year,
                     !.cvc = <<"1", "2", "3">>, !.country = "usa",
                     !.paymentMethod = "card"],
              expirationInput |-> month \o <<"/">> \o year,
              errors |-> NoErrors]
    /\ showSecureCheckout = FALSE
    /\ sc = NoCheckout
    /\ loadTimerRef = "null"
    /\ authTimerRef = "null"
    /\ activeTimers = {}
    /\ delivered = <<>>
    /\ routedMessage = "none"
    /\ outcome = "none"
    /\ userEmail = Undefined
    /\ tracked = <<>>
    /\ conversions = 0
    /\ headerState = HeaderStateOf(appState)
    /\ apiCall = NoCall
    /\ onboardingForm = InitialOnboardingForm(appState.onboardingData)

ExpirySpec == InitExpiry /\ [][handlePayment]_vars

DraftMonthNum == ParseInt(formState.paymentInfo.expirationMonth)
DraftYearNum == ParseInt(formState.paymentInfo.expirationYear)
DraftExpirationValid ==
    validateExpirationDate(formState.paymentInfo.expirationMonth,
                           formState.paymentInfo.expirationYear)

\* C24: validateExpirationDate is false when the month is outside 1..12,
\* when the two-digit year is below the current one, and when the year is
\* the current one and the month is earlier than the current month; it is
\* true for a month of 1..12 strictly after the current month and year, and
\* true on the current month and year.  The submit that follows agrees:
\* the checkout opens only for a draft the function accepts, and the
\* "past" message is set only for one it rejects.
C24_ExpirationIsFuture ==
    /\ (DraftMonthNum < 1 \/ DraftMonthNum > 12) => ~DraftExpirationValid
    /\ DraftYearNum < CurrentYear => ~DraftExpirationValid
    /\ (DraftYearNum = CurrentYear /\ DraftMonthNum < CurrentMonth)
          => ~DraftExpirationValid
    /\ (/\ DraftMonthNum \in 1..12
        /\ \/ DraftYearNum > CurrentYear
           \/ DraftYearNum = CurrentYear /\ DraftMonthNum > CurrentMonth)
          => DraftExpirationValid
    /\ (DraftYearNum = CurrentYear /\ DraftMonthNum = CurrentMonth)
          => DraftExpirationValid
    /\ showSecureCheckout => DraftExpirationValid
    /\ formState.errors.expiration = "expirationPast" => ~DraftExpirationValid

\* the draft that expires in the current month was submitted and accepted
C24_Witness ==
    /\ showSecureCheckout
    /\ DraftYearNum = CurrentYear
    /\ DraftMonthNum = CurrentMonth
    /\ formState.errors = NoErrors

(***************************************************************************)
(* validateCardNumber on its own: the user types card numbers of every     *)
(* length from LengthMargin below 13 digits to LengthMargin above 19, with *)
(* every last digit, into the card field of the paywall form.              *)
(***************************************************************************)
LengthMargin == 1

CardPatterns ==
    {<<"4", "2">>,
     <<"4", "0", "0", "0", "0", "5", "6", "6", "5", "5", "6", "6", "5", "5", "5">>,
     <<"1", "2", "3", "4", "5", "6", "7", "8", "9", "0">>}

CardDraft(pattern, n, last) ==
    [i \in 1..n |-> IF i = n THEN last ELSE pattern[((i - 1) % Len(pattern)) + 1]]

CardDrafts ==
    {CardDraft(pattern, n, last) :
        pattern \in CardPatterns,
        n \in (13 - LengthMargin)..(19 + LengthMargin),
        last \in Digits}

InitCard ==
    /\ InitForm
    /\ strictMode = FALSE

NextCard == \E value \in CardDrafts : ChangeCardNumber(value)

CardSpec == InitCard /\ [][NextCard]_vars

\* the Luhn checksum as it is defined: counting from the right, the digits
\* in even places are doubled and replaced by the sum of the double's
\* digits; the total is a multiple of 10
LuhnChecksumOk(digits) ==
    LET n == Len(digits)
        Term(k) == LET d == DigitVal(digits[n - k + 1])
                   IN  IF k % 2 = 0 THEN ((2 * d) \div 10) + ((2 * d) % 10) ELSE d
        Total[k \in 0..n] == IF k = 0 THEN 0 ELSE Total[k - 1] + Term(k)
    IN  Total[n] % 10 = 0

CardNumberJudged(value) ==
    LET digits == StripNonDigits(value)
        n == Len(digits)
    IN  /\ (n < 13 \/ n > 19) => ~validateCardNumber(value)
        /\ (n \in 13..19 /\ LuhnChecksumOk(digits)) => validateCardNumber(value)
        /\ (n \in 13..19 /\ ~LuhnChecksumOk(digits)) => ~validateCardNumber(value)

\* C25: validateCardNumber is false for every digit string shorter than 13
\* or longer than 19 digits, true for every string of 13 to 19 digits that
\* satisfies the Luhn checksum and false for every one that violates it, and
\* true for the test number 4242424242424242; this holds for every number
\* typed and for the formatted number the card field keeps.
C25_LuhnValid ==
    /\ validateCardNumber(TestCardNumber)
    /\ \A value \in CardDrafts : CardNumberJudged(value)
    /\ formState.paymentInfo.cardNumber # Undefined
          => CardNumberJudged(formState.paymentInfo.cardNumber)

\* the card field holds 4000 0566 5566 5556, a 16-digit number other than
\* the test number that satisfies the checksum and is accepted
C25_Witness ==
    /\ OnPaywallForm
    /\ formState.paymentInfo.cardNumber
          = formatCardNumber(CardDraft(<<"4", "0", "0", "0", "0", "5", "6", "6",
                                         "5", "5", "6", "6", "5", "5", "5">>, 16, "6"))
    /\ StripNonDigits(formState.paymentInfo.cardNumber) # TestCardNumber
    /\ validateCardNumber(formState.paymentInfo.cardNumber)

\* the notification each outcome of a card session is delivered by
NotificationOf(result) ==
    CASE result = "Succeeded" -> "success"
      [] result = "Declined" -> "error"
      [] result \in {"AuthExpired", "Cancelled"} -> "cancel"

\* C26: an authentication session delivers one outcome notification
\* (success, error or cancel) to the checkout owner and delivers it once:
\* nothing is delivered while the session is open, at most one
\* notification is ever delivered, and it is the one of the session's
\* outcome, so a countdown expiry is delivered neither after a submit or a
\* cancel nor twice.
C26_OneOutcomeNotification ==
    /\ showSecureCheckout => delivered = <<>>
    /\ Len(delivered) <= 1
    /\ delivered # <<>>
          => /\ outcome \in {"Succeeded", "Declined", "AuthExpired", "Cancelled"}
             /\ delivered[1] = NotificationOf(outcome)

(***************************************************************************)
(* pages/OnboardingStep1.tsx, pages/OnboardingStep2.tsx with               *)
(* components/WeightInput.tsx.  The weight's unit is left at kg: no rule   *)
(* of the submission reads it.                                             *)
(***************************************************************************)
LunchTypes == {"soups", "other"}
WeightInputs == {0, 10, 70}

\* useWeightForm's schema for kg: at least 1 and within 20..300
WeightFormValid(weight) == weight >= 1 /\ weight >= 20 /\ weight <= 300

\* OnboardingStep1.handleLunchChange
handleLunchChange(lunchType) ==
    /\ Committed
    /\ page = "onboarding1"
    /\ onboardingForm' = [onboardingForm EXCEPT !.selectedLunchType = lunchType]
    /\ tracked' = <<>>
    /\ UNCHANGED <<strictMode, headerState, apiCall, route, urlLanguage, page,
                   store, appState, plansLoaded, formState, showSecureCheckout,
                   sc, loadTimerRef, authTimerRef, activeTimers, delivered,
                   routedMessage, outcome, userEmail, conversions>>

\* OnboardingStep1.handleNext up to updateOnboardingData's await: the step
\* submitted is the hook's currentStep
OnboardingStep1_handleNext ==
    /\ Committed
    /\ page = "onboarding1"
    /\ onboardingForm.selectedLunchType # ""
    /\ submitOnboardingStep(appState.currentStep,
                            [lunchType |-> onboardingForm.selectedLunchType])

\* the weight field's onChange, then WeightInput's effect, which hands a
\* valid weight to handleWeightChange (updateOnboardingDataLocal)
handleWeightChange(weight) ==
    /\ Committed
    /\ page = "onboarding2"
    /\ onboardingForm' = [onboardingForm EXCEPT !.weight = weight]
    /\ appState' = IF WeightFormValid(weight)
                   THEN [appState EXCEPT !.onboardingData =
                            MergeAnswers(@, [weight |-> weight])]
                   ELSE appState
    /\ tracked' = <<>>
    /\ UNCHANGED <<strictMode, headerState, apiCall, route, urlLanguage, page,
                   store, plansLoaded, formState, showSecureCheckout,
                   sc, loadTimerRef, authTimerRef, activeTimers, delivered,
                   routedMessage, outcome, userEmail, conversions>>

\* the continue button of WeightInput (enabled for a valid weight), then
\* OnboardingStep2.handleNext up to updateOnboardingData's await
OnboardingStep2_handleNext ==
    /\ Committed
    /\ page = "onboarding2"
    /\ WeightFormValid(onboardingForm.weight)
    /\ submitOnboardingStep(appState.currentStep, appState.onboardingData)

\* updateOnboardingData after its await, then the rest of handleNext
updateOnboardingData ==
    /\ page \in {"onboarding1", "onboarding2"}
    /\ apiCall.name = "submitOnboardingStep"
    /\ apiCall.phase = "done"
    /\ apiCall' = NoCall
    /\ IF apiCall.result.success
       THEN /\ appState' = [appState EXCEPT
                               !.onboardingData = MergeAnswers(@, apiCall.data),
                               !.currentStep = apiCall.step + 1]
            /\ route' = IF page = "onboarding1" THEN "onboarding2" ELSE "paywall"
            /\ urlLanguage' = appState.language
            /\ tracked' = <<"onboarding_step">>
       ELSE /\ tracked' = <<>>
            /\ UNCHANGED <<appState, route, urlLanguage>>
    /\ UNCHANGED <<strictMode, headerState, onboardingForm, page, store,
                   plansLoaded, formState, showSecureCheckout, sc, loadTimerRef,
                   authTimerRef, activeTimers, delivered, routedMessage,
                   outcome, userEmail, conversions>>

OnboardingStored == {NoAnswers, [lunchType |-> "soups"],
                     [lunchType |-> "soups", weight |-> 70]}

\* the application is opened on either onboarding page, in either language
InitOnboarding ==
    /\ strictMode = FALSE
    /\ route \in {"onboarding1", "onboarding2"}
    /\ urlLanguage \in Languages
    /\ page = route
    /\ \E answers \in OnboardingStored :
          store = [EmptyStore EXCEPT !.onboarding_data = answers]
    /\ appState = getInitialState(store, urlLanguage)
    /\ plansLoaded = FALSE
    /\ formState = InitialFormState(EmptyPaymentInfo)
    /\ showSecureCheckout = FALSE
    /\ sc = NoCheckout
    /\ loadTimerRef = "null"
    /\ authTimerRef = "null"
    /\ activeTimers = {}
    /\ delivered = <<>>
    /\ routedMessage = "none"
    /\ outcome = "none"
    /\ userEmail = Undefined
    /\ tracked = <<>>
    /\ conversions = 0
    /\ headerState = HeaderStateOf(appState)
    /\ apiCall = NoCall
    /\ onboardingForm = InitialOnboardingForm(appState.onboardingData)

NextOnboarding ==
    \/ CommitRoute
    \/ handleLanguageToggle
    \/ \E lunchType \in LunchTypes : handleLunchChange(lunchType)
    \/ OnboardingStep1_handleNext
    \/ \E weight \in WeightInputs : handleWeightChange(weight)
    \/ OnboardingStep2_handleNext
    \/ \E fetchOutcome \in FetchOutcomes : FetchSettles(fetchOutcome)
    \/ FallbackTimerFires
    \/ updateOnboardingData

OnboardingSpec == InitOnboarding /\ [][NextOnboarding]_vars

\* an onboarding submission starts in this step
SubmissionStarts ==
    /\ apiCall.phase = "idle"
    /\ apiCall'.name = "submitOnboardingStep"
    /\ apiCall'.phase # "idle"

\* C27: whenever an onboarding submission is made the step submitted, the
\* hook's currentStep, is the step of the shown page (1 on the lunch page, 2
\* on the weight page), also right after a navigation mounted the page; a
\* submission from the weight page is therefore judged by the step-2 rule,
\* and the paywall is navigated to only after a submission of step 2 with a
\* weight above zero was accepted.
C27_SubmittedStepIsPageStep ==
    /\ [][SubmissionStarts
            => (/\ appState.currentStep = StepOfPage(page)
                /\ apiCall'.step = StepOfPage(page))]_vars
    /\ [][(page = "onboarding2" /\ route # "paywall" /\ route' = "paywall")
            => (/\ apiCall.step = 2
                /\ apiCall.result.success
                /\ "weight" \in DOMAIN apiCall.data
                /\ apiCall.data.weight > 0)]_vars

\* C28: the success page is shown, and the onboarding_complete conversion is
\* tracked, only in a session whose checkout has reached Succeeded: not
\* after navigations that skip the checkout, and not after Declined,
\* AuthExpired or a cancel.
C28_SuccessOnlyAfterSucceeded ==
    /\ page = "success" => outcome = "Succeeded"
    /\ conversions > 0 => outcome = "Succeeded"

\* resetState has navigated from the success page and the first page is not
\* mounted yet
ResetPending == page = "success" /\ route = "onboarding1"

EmailB == <<"b", "@", "c", ".", "d">>
AttemptEmails == EmailInputs \cup {EmailB}
AttemptPasswords == {SuccessPassword, <<"0", "0", "0", "0", "0", "0">>}

InitAttempts ==
    /\ strictMode = FALSE
    /\ route = "paywall"
    /\ urlLanguage = "en"
    /\ page = "paywall"
    /\ \E earlier \in {Undefined, EmailA} :
          store = [EmptyStore EXCEPT !.user_email = earlier]
    /\ appState = getInitialState(store, urlLanguage)
    /\ plansLoaded = FALSE
    /\ formState = InitialFormState(appState.paymentInfo)
    /\ showSecureCheckout = FALSE
    /\ sc = NoCheckout
    /\ loadTimerRef = "null"
    /\ authTimerRef = "null"
    /\ activeTimers = {}
    /\ delivered = <<>>
    /\ routedMessage = "none"
    /\ outcome = "none"
    /\ userEmail = Undefined
    /\ tracked = <<>>
    /\ conversions = 0
    /\ headerState = HeaderStateOf(appState)
    /\ apiCall = NoCall
    /\ onboardingForm = InitialOnboardingForm(appState.onboardingData)

NextAttempts ==
    \/ CommitRoute
    \/ LoadData
    \/ handlePlanSelect(FreePlan)
    \/ \E method \in {"card", "paypal"} : ChangePaymentMethod(method)
    \/ \E value \in AttemptEmails : ChangeEmail(value)
    \/ \E value \in CardInputs : ChangeCardNumber(value)
    \/ ChangeExpiration(<<"1", "2", "/", "2", "8">>)
    \/ \E value \in CvcInputs : ChangeCvc(value)
    \/ \E value \in CountryInputs : ChangeCountry(value)
    \/ handlePayment
    \/ LoadTimerFires
    \/ AuthTimerTicks
    \/ \E value \in AttemptPasswords : SetPassword(value)
    \/ handleSubmit
    \/ ProcessingTimerFires
    \/ handleCancel
    \/ PaymentSuccessRedirect
    \/ handleRetryPayment

AttemptsSpec == InitAttempts /\ [][NextAttempts]_vars

\* the payment button is pressed on a draft the validation accepts
AcceptedSubmit ==
    handlePayment /\ validateForm(formState.paymentInfo) = NoErrors

\* C30: after any sequence of email edits and payment attempts that ends in
\* Succeeded, by the card path or a non-card path, the email the success
\* page recovers is the email that was in the draft, and passed validation,
\* at the final submit: the accepted draft's email is the one in the
\* separate key, the key is not written from the submit until the success
\* page is shown, and the success page shows the key's value.
C30_RecoveredEmailIsDraftEmail ==
    /\ [][AcceptedSubmit
            => (/\ validateEmail(formState.paymentInfo.email)
                /\ store.user_email = formState.paymentInfo.email
                /\ store' = store)]_vars
    /\ [][(showSecureCheckout \/ (outcome' = "Succeeded" /\ page # "success"))
            => store' = store]_vars
    /\ [][(CommitRoute /\ page = "paywall" /\ route = "success")
            => (outcome = "Succeeded"
                /\ userEmail' = formState.paymentInfo.email)]_vars
    /\ [][(CommitRoute /\ page = "paywall" /\ route = "paymentSuccess")
            => (outcome = "Succeeded"
                /\ store.user_email = formState.paymentInfo.email)]_vars
    /\ [][(CommitRoute /\ route = "success")
            => (/\ outcome = "Succeeded"
                /\ userEmail' = store.user_email
                /\ validateEmail(userEmail'))]_vars

\* the success page shows b@c.d after a card payment, in a visit that began
\* over a key holding a@b.c
C30_Witness ==
    /\ page = "success"
    /\ outcome = "Succeeded"
    /\ delivered = <<"success">>
    /\ userEmail = EmailB

====
